---- MODULE Spec2Model ----
(***************************************************************************)
(* Model of the WatchPlant mu_interface sensor node: the record classifier *)
(* (Sensor_Node.classify_message), the acquisition loop                    *)
(* (Sensor_Node.start), and the HTTP client with its bounded queue,        *)
(* forwarding thread and rolling success tracker (HTTPClient).             *)
(*                                                                         *)
(* Text is modelled as sequences of one-character strings, so that the     *)
(* Python string operations the classifier uses (count, split, int) are    *)
(* computed character by character.                                        *)
(***************************************************************************)
EXTENDS Integers, Sequences, FiniteSets, TLC

\* ------------------------------------------------------------------------
\* Python string primitives
\* ------------------------------------------------------------------------

Whitespace == {" ", "\t", "\n", "\r", "\f"}

Digits == {"0", "1", "2", "3", "4", "5", "6", "7", "8", "9"}

DigitVal ==
  ("0" :> 0) @@ ("1" :> 1) @@ ("2" :> 2) @@ ("3" :> 3) @@ ("4" :> 4) @@
  ("5" :> 5) @@ ("6" :> 6) @@ ("7" :> 7) @@ ("8" :> 8) @@ ("9" :> 9)

\* str.count(c) for a one-character c
Count(s, c) == Cardinality({i \in 1..Len(s) : s[i] = c})

\* str.startswith(p)
StartsWith(s, p) == Len(s) >= Len(p) /\ SubSeq(s, 1, Len(p)) = p

\* index of the first occurrence of sep in s, 0 when there is none
FindSep(s, sep) ==
  LET hits == {i \in 1..(Len(s) - Len(sep) + 1) : SubSeq(s, i, i + Len(sep) - 1) = sep}
  IN IF hits = {} THEN 0 ELSE CHOOSE i \in hits : \A j \in hits : i <= j

\* str.split(sep) with an explicit separator: empty pieces are kept
RECURSIVE Split(_, _)
Split(s, sep) ==
  LET i == FindSep(s, sep)
  IN IF i = 0 THEN <<s>>
     ELSE <<SubSeq(s, 1, i - 1)>> \o Split(SubSeq(s, i + Len(sep), Len(s)), sep)

\* str.split() without a separator: runs of whitespace separate, no empty pieces
RECURSIVE SplitWS(_)
SplitWS(s) ==
  IF s = <<>> THEN <<>>
  ELSE IF s[1] \in Whitespace THEN SplitWS(Tail(s))
  ELSE LET ws == {i \in 1..Len(s) : s[i] \in Whitespace}
           e == IF ws = {} THEN Len(s) + 1 ELSE CHOOSE i \in ws : \A j \in ws : i <= j
       IN <<SubSeq(s, 1, e - 1)>> \o SplitWS(SubSeq(s, e, Len(s)))

\* str.strip()
RECURSIVE Strip(_)
Strip(s) ==
  IF s = <<>> THEN s
  ELSE IF s[1] \in Whitespace THEN Strip(Tail(s))
  ELSE IF s[Len(s)] \in Whitespace THEN Strip(SubSeq(s, 1, Len(s) - 1))
  ELSE s

\* the digits of an int() argument: surrounding whitespace and one sign removed
IntBody(s) ==
  LET t == Strip(s)
  IN IF t # <<>> /\ t[1] \in {"+", "-"} THEN Tail(t) ELSE t

\* whether int(s) succeeds (it raises ValueError otherwise)
IsInt(s) == IntBody(s) # <<>> /\ \A i \in 1..Len(IntBody(s)) : IntBody(s)[i] \in Digits

RECURSIVE DigitsValue(_)
DigitsValue(d) ==
  IF d = <<>> THEN 0 ELSE 10 * DigitsValue(SubSeq(d, 1, Len(d) - 1)) + DigitVal[d[Len(d)]]

\* int(s), defined where IsInt(s)
IntOf(s) ==
  LET t == Strip(s)
  IN IF t[1] = "-" THEN 0 - DigitsValue(IntBody(s)) ELSE DigitsValue(IntBody(s))

\* ------------------------------------------------------------------------
\* Decoded lines the device can send
\* ------------------------------------------------------------------------

\* "X 100 200 300"
LineData == <<"X", " ", "1", "0", "0", " ", "2", "0", "0", " ", "3", "0", "0">>

\* "X 1 2"
LineDataShort == <<"X", " ", "1", " ", "2">>

\* "X 1 2 3"
LineDataExample == <<"X", " ", "1", " ", "2", " ", "3">>

\* "X 1 a 3"
LineDataBad == <<"X", " ", "1", " ", "a", " ", "3">>

\* "X 4 5 6#id 5#ta 2"
LineDataMeta == <<"X", " ", "4", " ", "5", " ", "6", "#", "i", "d", " ", "5", "#", "t", "a", " ", "2">>

\* "X 4 5 6 #id 5 #ta 2"
LineDataMetaSpaced == <<"X", " ", "4", " ", "5", " ", "6", " ", "#", "i", "d", " ", "5", " ", "#", "t", "a", " ", "2">>

\* "X 4#id#ta 2"
LineDataMetaNoId == <<"X", " ", "4", "#", "i", "d", "#", "t", "a", " ", "2">>

\* "#id 7\r\n#ta 3\r\n#mi 1\r\n#fw 2"
LineHeader == <<"#", "i", "d", " ", "7", "\r", "\n", "#", "t", "a", " ", "3", "\r", "\n", "#", "m", "i", " ", "1", "\r", "\n", "#", "f", "w", " ", "2">>

\* "#id 9\r\n#ta x\r\n#mi 1\r\n#fw 2"
LineHeaderBadTa == <<"#", "i", "d", " ", "9", "\r", "\n", "#", "t", "a", " ", "x", "\r", "\n", "#", "m", "i", " ", "1", "\r", "\n", "#", "f", "w", " ", "2">>

\* "#id 9\r\n#mi 1\r\n#fw 2\r\n#hw 3"
LineHeaderNoTa == <<"#", "i", "d", " ", "9", "\r", "\n", "#", "m", "i", " ", "1", "\r", "\n", "#", "f", "w", " ", "2", "\r", "\n", "#", "h", "w", " ", "3">>

\* "X 1#2"
LineOneHash == <<"X", " ", "1", "#", "2">>

\* ------------------------------------------------------------------------
\* Sensor_Node.transform_data and Sensor_Node.classify_message
\* ------------------------------------------------------------------------

\* hostname of the node; node handle of its HTTP client
HostDev == <<"d", "e", "v">>

\* (header, payload) = (None, [])
NoRecord == [header |-> <<>>, payload |-> <<>>]

\* the try block left by exception exc with self.mu_id = id, self.mu_mm = mm
Raises(exc, id, mm) == NoRecord @@ [mu_id |-> id, mu_mm |-> mm, exc |-> exc]

\* C20 mutant: an except clause for ValueError alone
IsCaughtValueOnly(exc) == exc = "ValueError"

\* except (ValueError, IndexError, KeyError)
IsCaught(exc) == exc \in {"ValueError", "IndexError", "KeyError"}

\* transform_data: the tokens after the first, each through int(); ok is FALSE
\* where int() raises ValueError
transform_data(string_data, now) ==
  LET split_data == Split(string_data, <<" ">>)
      elems == Tail(split_data)
  IN IF \A i \in 1..Len(elems) : IsInt(elems[i])
     THEN [ok |-> TRUE, timestamp |-> now,
           measurements |-> [i \in 1..Len(elems) |-> IntOf(elems[i])]]
     ELSE [ok |-> FALSE, timestamp |-> now, measurements |-> <<>>]

\* the counter == 0 branch
ClassifyData(hostname, mu_line, id, mm, now) ==
  LET t == transform_data(mu_line, now)
  IN IF t.ok
     THEN [header |-> <<hostname, 1, FALSE>>,
           payload |-> <<hostname, mm, id, t.timestamp>> \o t.measurements,
           mu_id |-> id, mu_mm |-> mm, exc |-> "none"]
     ELSE Raises("ValueError", id, mm)

\* messages[k].split(" ")[1] through int(): IndexError or ValueError give ok = FALSE
MetaField(message) ==
  LET parts == Split(message, <<" ">>)
  IN IF Len(parts) >= 2 /\ IsInt(parts[2])
     THEN [ok |-> TRUE, val |-> IntOf(parts[2]), exc |-> "none"]
     ELSE [ok |-> FALSE, val |-> 0,
           exc |-> IF Len(parts) < 2 THEN "IndexError" ELSE "ValueError"]

\* C5 mutant: a counter == 2 branch that saves the id and mode of the line
ClassifyDataMetaSaving(hostname, mu_line, id, mm, now) ==
  LET messages == Split(mu_line, <<"#">>)
      new_id == MetaField(messages[2])
      new_mm == MetaField(messages[3])
      t == transform_data(messages[1], now)
  IN IF new_id.ok /\ new_mm.ok /\ t.ok
     THEN [header |-> <<hostname, 2, FALSE>>,
           payload |-> <<hostname, new_mm.val, new_id.val, t.timestamp>> \o t.measurements,
           mu_id |-> new_id.val, mu_mm |-> new_mm.val, exc |-> "none"]
     ELSE Raises(IF ~new_id.ok THEN new_id.exc ELSE IF ~new_mm.ok THEN new_mm.exc ELSE "ValueError",
                 id, mm)

\* the counter == 2 branch: the id and mode of the line go to the payload only
ClassifyDataMeta(hostname, mu_line, id, mm, now) ==
  LET messages == Split(mu_line, <<"#">>)
      new_id == MetaField(messages[2])
      new_mm == MetaField(messages[3])
      t == transform_data(messages[1], now)
  IN IF new_id.ok /\ new_mm.ok /\ t.ok
     THEN [header |-> <<hostname, 2, FALSE>>,
           payload |-> <<hostname, new_mm.val, new_id.val, t.timestamp>> \o t.measurements,
           mu_id |-> id, mu_mm |-> mm, exc |-> "none"]
     ELSE Raises(IF ~new_id.ok THEN new_id.exc ELSE IF ~new_mm.ok THEN new_mm.exc ELSE "ValueError",
                 id, mm)

\* the sub-lines of a header block that start with '#', each split on whitespace
HeaderLines(mu_line) ==
  LET subs == Split(mu_line, <<"\r", "\n">>)
      kept == SelectSeq(subs, LAMBDA l : StartsWith(l, <<"#">>))
  IN [i \in 1..Len(kept) |-> SplitWS(kept[i])]

\* lines[key] of the dict {line[0]: line[1]}: the last sub-line with that key wins
HeaderValue(lines, key) ==
  LET hits == {i \in 1..Len(lines) : lines[i][1] = key}
  IN IF hits = {} THEN [ok |-> FALSE, val |-> 0, exc |-> "KeyError"]
     ELSE LET v == lines[CHOOSE i \in hits : \A j \in hits : j <= i][2]
          IN IF IsInt(v) THEN [ok |-> TRUE, val |-> IntOf(v), exc |-> "none"]
             ELSE [ok |-> FALSE, val |-> 0, exc |-> "ValueError"]

\* C19 mutant: a counter == 4 branch that saves nothing
ClassifyHeaderKeeping(hostname, mu_line, id, mm) ==
  [header |-> <<hostname, 0, FALSE>>, payload |-> mu_line, mu_id |-> id, mu_mm |-> mm,
   exc |-> "none"]

\* the counter == 4 branch: self.mu_id is assigned before self.mu_mm is parsed,
\* so a block whose #ta is missing or malformed still replaces self.mu_id
ClassifyHeader(hostname, mu_line, id, mm) ==
  LET lines == HeaderLines(mu_line)
  IN IF \E i \in 1..Len(lines) : Len(lines[i]) < 2
     THEN Raises("IndexError", id, mm)
     ELSE LET new_id == HeaderValue(lines, <<"#", "i", "d">>)
              new_mm == HeaderValue(lines, <<"#", "t", "a">>)
          IN IF ~new_id.ok THEN Raises(new_id.exc, id, mm)
             ELSE IF ~new_mm.ok THEN Raises(new_mm.exc, new_id.val, mm)
             ELSE [header |-> <<hostname, 0, FALSE>>, payload |-> mu_line,
                   mu_id |-> new_id.val, mu_mm |-> new_mm.val, exc |-> "none"]

\* classify_message(mu_line) with self.mu_id = id, self.mu_mm = mm at wall-clock
\* time now: the returned (header, payload) and the new self.mu_id, self.mu_mm;
\* raised where an exception leaves the try block that the except clause does
\* not name
classify_message(hostname, mu_line, id, mm, now) ==
  LET counter == Count(mu_line, "#")
      r == CASE counter = 0 -> ClassifyData(hostname, mu_line, id, mm, now)
             [] counter = 2 -> ClassifyDataMeta(hostname, mu_line, id, mm, now)
             [] counter = 4 -> ClassifyHeader(hostname, mu_line, id, mm)
             [] OTHER -> NoRecord @@ [mu_id |-> id, mu_mm |-> mm, exc |-> "none"]
  IN [header |-> r.header, payload |-> r.payload, mu_id |-> r.mu_id, mu_mm |-> r.mu_mm,
      raised |-> r.exc # "none" /\ ~IsCaught(r.exc)]

\* ------------------------------------------------------------------------
\* Bounds of the model
\* ------------------------------------------------------------------------

\* lines the device sends in a run of the pipeline
MaxLines == 3

\* lines the device sends in a run of the load scenario (data lines only)
MaxLoadLines == 12

\* lines classified in a run of the classifier alone
MaxClassify == 5

\* methods of the client called in a run of the client alone
MaxCalls == 3

\* lines the device sends in a run of the outage scenario (data lines only)
MaxOutageLines == 11

\* calls of add_data in a run of the success tracker alone
MaxPushes == 11

\* wall-clock time, in half seconds, up to which a run of the watchdog or of
\* the frame decoder is followed
MaxWall == 14

\* frames the device sends in a run of the frame decoder
MaxFrames == 2

\* units between a start marker and the end marker, and lines returned, in a
\* run of the decoder on any stream
MaxBuf == 2

\* ------------------------------------------------------------------------
\* Program constants
\* ------------------------------------------------------------------------

\* queue.Queue(maxsize=10)
QueueSize == 10

\* deque([True] * 10, maxlen=10)
TrackerLen == 10

\* website_mapping: "OB-ZAG-0_CYB1", "OB-BCN-2_CYB1", "OB-BCN-1_CYB1", "OB-BCN-3_CYB1"
website_mapping ==
  { <<"O", "B", "-", "Z", "A", "G", "-", "0", "_", "C", "Y", "B", "1">>,
    <<"O", "B", "-", "B", "C", "N", "-", "2", "_", "C", "Y", "B", "1">>,
    <<"O", "B", "-", "B", "C", "N", "-", "1", "_", "C", "Y", "B", "1">>,
    <<"O", "B", "-", "B", "C", "N", "-", "3", "_", "C", "Y", "B", "1">> }

\* a hostname that starts with "OB" and is no key of website_mapping: "OB-ZAG-0"
HostUnmapped == <<"O", "B", "-", "Z", "A", "G", "-", "0">>

\* self.enabled, were __init__ to leave it True for every handle
ClientEnabledAlways(handle) == TRUE

\* self.enabled as HTTPClient.__init__ sets it
ClientEnabled(handle) == ~(StartsWith(handle, <<"O", "B">>) /\ handle \notin website_mapping)

\* CsvStorage.filter: the (0-based) payload indices of the stored columns; the
\* YAML column configuration: measurement mode, device id and three data columns
CsvFilter == <<1, 2, 4, 5, 6>>

\* CsvStorage.transform_data(raw_data): raw_data[i] for i in self.filter raises
\* IndexError on a payload shorter than the configuration; the configured
\* columns carry no transformation, so the dictionary holds the filtered values
CsvTransform(raw_data) ==
  IF \A k \in 1..Len(CsvFilter) : CsvFilter[k] + 1 <= Len(raw_data)
  THEN [ok |-> TRUE, data |-> [k \in 1..Len(CsvFilter) |-> raw_data[CsvFilter[k] + 1]]]
  ELSE [ok |-> FALSE, data |-> <<>>]

\* ------------------------------------------------------------------------
\* WatchdogCounter (time in half seconds, relative delays in tenths)
\* ------------------------------------------------------------------------

\* the 1.5 of "timeout_value < 1.5", in half seconds
ShortInterval == 3

\* the 5 of "max(5, self.timeout_multiplier)"
ShortMultiplier == 5

\* self.timeout = 1, the timeout of a serial read, in half seconds
ReadTimeout == 2

\* self.last_valid = None
Unset == -1

\* the units a serial read can give: the markers, a payload character, a line
\* feed, and the empty string of a read that timed out
Units == {"A", "Z", "h", "\n", ""}

\* a byte above 0x7f, which bytes.decode("ascii") does not decode
NonAscii == "0x80"

\* what a serial read can give: the bytes of the units, and a byte that is
\* not ASCII
Bytes == Units \cup {NonAscii}

\* the patterns the decoder checks units against
Patterns == {".+", "A", "Z"}

\* C23 mutant: a wildcard that also matches the empty string
MatchesEmpty(target, data) ==
  IF target = ".+" THEN data # "\n" ELSE data = target

\* re.match(target, data) for a unit of at most one character: '.' matches
\* any character except a line feed
Matches(target, data) ==
  IF target = ".+" THEN data # "" /\ data # "\n" ELSE data = target

\* C24 mutant: a limit without the floor of the multiplier
update_limit_unfloored(wd, timeout_value) ==
  [wd EXCEPT !.timeout_value = timeout_value,
             !.limit = wd.timeout_multiplier * timeout_value]

\* C27 mutant: an update that forgets the last match and the last report
update_limit_resetting(wd, timeout_value) ==
  [wd EXCEPT !.timeout_value = timeout_value,
             !.limit = (IF timeout_value < ShortInterval /\ wd.timeout_multiplier < ShortMultiplier
                        THEN ShortMultiplier ELSE wd.timeout_multiplier) * timeout_value,
             !.last_valid = Unset,
             !.last_report = 0]

\* WatchdogCounter.update_limit
update_limit(wd, timeout_value) ==
  LET timeout_multiplier ==
        IF timeout_value < ShortInterval
        THEN (IF wd.timeout_multiplier > ShortMultiplier THEN wd.timeout_multiplier
              ELSE ShortMultiplier)
        ELSE wd.timeout_multiplier
  IN [wd EXCEPT !.timeout_value = timeout_value,
                !.limit = timeout_multiplier * timeout_value]

\* WatchdogCounter.__init__
WatchdogCounter(timeout_multiplier, timeout_value) ==
  [update_limit([timeout_multiplier |-> timeout_multiplier, timeout_value |-> timeout_value,
                 limit |-> 0, last_valid |-> Unset, last_report |-> 0],
                timeout_value)
   EXCEPT !.last_valid = Unset, !.last_report = 0]

\* C26 mutant: a last_valid that a match does not move
LastValidSticky(wd, data, target, now) ==
  IF wd.last_valid = Unset THEN now ELSE wd.last_valid

\* self.last_valid as check leaves it: seeded by the first call, moved to now
\* by a match
LastValid(wd, data, target, now) ==
  IF Matches(target, data) THEN now
  ELSE IF wd.last_valid = Unset THEN now ELSE wd.last_valid

\* round(delay / timeout_value, 1) in tenths: the nearest tenth, and the even
\* one where the quotient lies halfway between two tenths
RelativeDelay(delay, timeout_value) ==
  LET q == (10 * delay) \div timeout_value
      r == (10 * delay) % timeout_value
  IN IF 2 * r < timeout_value THEN q
     ELSE IF 2 * r > timeout_value THEN q + 1
     ELSE IF q % 2 = 0 THEN q ELSE q + 1

\* int(relative_delay)
IntPart(relative_delay) == relative_delay \div 10

\* C25 mutant: every overrun is reported
DoReportAlways(wd, relative_delay) == TRUE

\* int(relative_delay) != self.last_report
DoReport(wd, relative_delay) == IntPart(relative_delay) # wd.last_report

\* WatchdogCounter.check(data, target) at time now: the watchdog after the
\* call and the (ok, relative_delay, do_report) returned
check(wd, data, target, now) ==
  LET last_valid == LastValid(wd, data, target, now)
      delay == now - last_valid
      relative_delay == RelativeDelay(delay, wd.timeout_value)
  IN IF delay >= wd.limit
     THEN [wd |-> [wd EXCEPT !.last_valid = last_valid,
                             !.last_report = IF DoReport(wd, relative_delay)
                                             THEN IntPart(relative_delay)
                                             ELSE wd.last_report],
           ret |-> [ok |-> FALSE, relative_delay |-> relative_delay,
                    do_report |-> DoReport(wd, relative_delay)]]
     ELSE [wd |-> [wd EXCEPT !.last_valid = last_valid],
           ret |-> [ok |-> TRUE, relative_delay |-> relative_delay, do_report |-> FALSE]]

\* ------------------------------------------------------------------------
\* State
\* ------------------------------------------------------------------------

VARIABLES
  mu_id,            \* Sensor_Node.mu_id
  mu_mm,            \* Sensor_Node.mu_mm
  clock,            \* wall clock in measurement intervals: lines read so far
  last,             \* the line last classified and its (header, payload)
  hdr_seen,         \* history: <<id, mode>> of the Header record last classified
  data_dict,        \* the loop's local data_dict: unbound until a transform succeeds
  csv_rows,         \* history: rows written to the CSV file
  loop_pc,          \* "read": at get_next; "ratio": inside send, after put_nowait
  send_result,      \* what the last call of send gave the loop
  notice,           \* the notification the loop last handed to notify_pub
  last_publish,     \* ZMQ_Publisher_Throttled.last_publish: Unset for a topic not in it
  sent_at,          \* history: when the socket last sent a message of each topic
  pub_call,         \* history: the last call of publish and whether it sent
  enqueued,         \* history: tasks send has put on the queue
  handoff,          \* history: what the last iteration did with its record: pub
                    \* whether it was published on ZMQ; csv
                    \* "none", "written", "failed"; cloud "none", "put", "full",
                    \* "swallowed" (disabled client), "unbound" (send not reached)
  node_handle,      \* HTTPClient.node_handle
  enabled,          \* HTTPClient.enabled
  queue,            \* HTTPClient.queue
  stop_event,       \* HTTPClient._stop_event
  thread_started,   \* HTTPClient.thread_started
  success_tracker,  \* HTTPClient.success_tracker
  worker_pc,        \* _data_processing_thread: "unstarted", "check", "get", "push", "exited"
  task,             \* the task the thread has dequeued
  exit_reason,      \* why the thread left its loop
  pushed,           \* history: tasks handed to add_data
  last_push,        \* history: outcome of the last add_data under func_timeout
  delivered,        \* history: tasks whose add_data returned True
  stop_pc,          \* HTTPClient.stop: "idle", "put", "join", "done"
  service,          \* the remote service as the run meets it: "up", "down", "flaky"
  known_nodes,      \* HTTPClient.known_nodes: None (fetched = FALSE) or the handles fetched
  known_data_fields, \* HTTPClient.known_data_fields, likewise
  service_nodes,    \* the node handles the remote service holds
  call,             \* history: the last call of a client method and what it gave
  n_calls,          \* history: client methods called so far
  wall,             \* time.time(), in half seconds
  watchdogs,        \* Cybres_MU.data_watchdog and Cybres_MU.frame_watchdog
  wd_ret,           \* history: what the last check of each watchdog returned
  wd_call,          \* history: the last call on a watchdog
  start_char,       \* Cybres_MU.start_char
  dec_pc,           \* the decoder: "idle" outside get_next, "seeking" in the
                    \* loop of find_start, "inframe" in the loop of get_next
  line_buf,         \* the local line of get_next
  dev,              \* the device: where it is in the frame it is sending
  sent_lines,       \* history: payloads of the frames the device has completed
  lines_out,        \* history: lines get_next has returned
  unit_at           \* history: when a read last gave a unit, Unset before

sensorVars == <<mu_id, mu_mm, clock, last, hdr_seen>>
loopVars ==
  <<data_dict, csv_rows, loop_pc, send_result, notice, enqueued, handoff, last_publish, sent_at,
    pub_call>>
clientVars == <<node_handle, enabled, queue, stop_event, thread_started, success_tracker>>
workerVars == <<worker_pc, task, exit_reason, pushed, last_push, delivered>>
apiVars == <<known_nodes, known_data_fields, service_nodes, call, n_calls>>
wdVars == <<wall, watchdogs, wd_ret, wd_call>>
decVars == <<start_char, dec_pc, line_buf, lines_out, unit_at>>
devVars == <<dev, sent_lines>>
muVars == <<wdVars, decVars, devVars>>
vars == <<sensorVars, loopVars, clientVars, workerVars, stop_pc, service, apiVars, muVars>>

\* the (None, None) that stop() enqueues
Sentinel == [timestamp |-> 0, data |-> <<>>, none |-> TRUE]

NoTask == [timestamp |-> 0, data |-> <<>>, none |-> FALSE]

NoSend == [kind |-> "none", failed |-> 0, len |-> 0]

NoPush == [outcome |-> "none", appended |-> <<>>]

\* known_nodes = None
NoList == [fetched |-> FALSE, handles |-> {}]

\* the timestamp of a call that takes none
NoTimestamp ==
  [type |-> "none", text |-> <<>>, year |-> 0, month |-> 0, day |-> 0,
   hour |-> 0, minute |-> 0, second |-> 0, utcoffset |-> 0]

\* the topics the loop publishes notifications on
Topics == {"timeout_error", "csv_error", "website_error", "[Warning]-website", "[Error]-website"}

NoPublish == [topic |-> "none", at |-> 0, sent |-> FALSE]

NoCall ==
  [op |-> "none", handle |-> <<>>, raised |-> FALSE, ret |-> "none", requests |-> <<>>,
   timestamp |-> NoTimestamp, date |-> <<>>, force_refresh |-> FALSE, response |-> "none"]

\* the state after Sensor_Node.__init__ and HTTPClient.__init__
InitCommon ==
  /\ mu_id = 0
  /\ mu_mm = 0
  /\ clock = 0
  /\ last = [line |-> <<>>, raised |-> FALSE] @@ NoRecord
  /\ hdr_seen = <<0, 0>>
  /\ data_dict = [bound |-> FALSE, vals |-> <<>>]
  /\ csv_rows = <<>>
  /\ loop_pc = "read"
  /\ send_result = NoSend
  /\ notice = "none"
  /\ last_publish = [t \in Topics |-> Unset]
  /\ sent_at = [t \in Topics |-> Unset]
  /\ pub_call = NoPublish
  /\ enqueued = <<>>
  /\ handoff = [pub |-> FALSE, csv |-> "none", cloud |-> "none"]
  /\ enabled = ClientEnabled(node_handle)
  /\ queue = <<>>
  /\ stop_event = FALSE
  /\ thread_started = FALSE
  /\ success_tracker = [i \in 1..TrackerLen |-> TRUE]
  /\ worker_pc = "unstarted"
  /\ task = NoTask
  /\ exit_reason = "none"
  /\ pushed = <<>>
  /\ last_push = NoPush
  /\ delivered = <<>>
  /\ stop_pc = "idle"
  /\ known_nodes = NoList
  /\ known_data_fields = NoList
  /\ call = NoCall
  /\ n_calls = 0

\* nothing returned, nothing called yet
NoRet == [ok |-> TRUE, relative_delay |-> 0, do_report |-> FALSE]

NoWdCall == [op |-> "none", w |-> "none", data |-> "", target |-> "", arg |-> 0]

\* the device between two frames
DevGap == [pc |-> "gap", payload |-> <<>>, pos |-> 0]

\* the decoder, the device and the time before the first read
InitDecoder ==
  /\ wall = 0
  /\ wd_ret = [w \in {"data", "frame"} |-> NoRet]
  /\ wd_call = NoWdCall
  /\ start_char = "Z"
  /\ dec_pc = "idle"
  /\ line_buf = <<>>
  /\ dev = DevGap
  /\ sent_lines = <<>>
  /\ lines_out = <<>>
  /\ unit_at = Unset

\* the state after Cybres_MU.__init__: two watchdogs of multiplier 3 and 10 s
InitMu ==
  /\ watchdogs = [w \in {"data", "frame"} |-> WatchdogCounter(3, 20)]
  /\ InitDecoder

Init ==
  /\ node_handle \in {HostDev, HostUnmapped}
  /\ service = "flaky"
  /\ service_nodes = {}
  /\ InitCommon
  /\ InitMu

\* ------------------------------------------------------------------------
\* HTTPClient: success tracker, add_data, send
\* ------------------------------------------------------------------------

\* C16 mutant: a tracker without maxlen
TrackerAppendUnbounded(tracker, outcome) == Append(tracker, outcome)

\* deque.append on a deque of maxlen 10: the oldest outcome leaves a full deque
TrackerAppend(tracker, outcome) ==
  IF Len(tracker) >= TrackerLen THEN Tail(tracker) \o <<outcome>> ELSE Append(tracker, outcome)

\* success_tracker.count(False)
CountFalse(tracker) == Cardinality({i \in 1..Len(tracker) : tracker[i] = FALSE})

\* the digits as strftime writes them
DigitChars == <<"0", "1", "2", "3", "4", "5", "6", "7", "8", "9">>

IsDigit(c) == c \in Digits

IsLeap(year) == (year % 4 = 0 /\ year % 100 # 0) \/ year % 400 = 0

\* the days of a month, as the datetime constructor checks them
DaysInMonth(year, month) ==
  IF month = 2 THEN (IF IsLeap(year) THEN 29 ELSE 28)
  ELSE IF month \in {4, 6, 9, 11} THEN 30 ELSE 31

\* a timestamp handed to add_data: a datetime (utcoffset: the hours its
\* tzinfo, or for a naive one the local zone, is ahead of UTC), a str, or a
\* value of another type
DateTime(year, month, day, hour, minute, second, utcoffset) ==
  [type |-> "datetime", text |-> <<>>, year |-> year, month |-> month, day |-> day,
   hour |-> hour, minute |-> minute, second |-> second, utcoffset |-> utcoffset]

Str(text) ==
  [type |-> "str", text |-> text, year |-> 0, month |-> 0, day |-> 0,
   hour |-> 0, minute |-> 0, second |-> 0, utcoffset |-> 0]

OtherValue ==
  [type |-> "other", text |-> <<>>, year |-> 0, month |-> 0, day |-> 0,
   hour |-> 0, minute |-> 0, second |-> 0, utcoffset |-> 0]

NoField == [ok |-> FALSE, val |-> 0, pos |-> 0]

\* %Y of strptime: four digits
DirectiveYear(text, pos) ==
  IF pos + 3 <= Len(text) /\ \A i \in pos..(pos + 3) : IsDigit(text[i])
  THEN [ok |-> TRUE, pos |-> pos + 4,
        val |-> 1000 * DigitVal[text[pos]] + 100 * DigitVal[text[pos + 1]]
                + 10 * DigitVal[text[pos + 2]] + DigitVal[text[pos + 3]]]
  ELSE NoField

\* a numeric directive of strptime (%m, %H, %M, %S): the regular expression
\* tries its two-digit alternatives first and then a single digit
Directive(text, pos, two, one) ==
  IF /\ pos + 1 <= Len(text)
     /\ IsDigit(text[pos])
     /\ IsDigit(text[pos + 1])
     /\ (10 * DigitVal[text[pos]] + DigitVal[text[pos + 1]]) \in two
  THEN [ok |-> TRUE, pos |-> pos + 2,
        val |-> 10 * DigitVal[text[pos]] + DigitVal[text[pos + 1]]]
  ELSE IF pos <= Len(text) /\ IsDigit(text[pos]) /\ DigitVal[text[pos]] \in one
  THEN [ok |-> TRUE, pos |-> pos + 1, val |-> DigitVal[text[pos]]]
  ELSE NoField

\* %d of strptime: as the other directives, and last a space and a digit
DirectiveDay(text, pos) ==
  IF Directive(text, pos, 1..31, 1..9).ok THEN Directive(text, pos, 1..31, 1..9)
  ELSE IF /\ pos + 1 <= Len(text)
          /\ text[pos] = " "
          /\ IsDigit(text[pos + 1])
          /\ DigitVal[text[pos + 1]] \in 1..9
  THEN [ok |-> TRUE, pos |-> pos + 2, val |-> DigitVal[text[pos + 1]]]
  ELSE NoField

\* a literal character of the format
Literal(text, pos, c) == pos <= Len(text) /\ text[pos] = c

\* the space of the format, \s+ in the regular expression: the position after
\* the run of whitespace that starts at pos
RECURSIVE SkipWhitespace(_, _)
SkipWhitespace(text, pos) ==
  IF pos <= Len(text) /\ text[pos] \in Whitespace THEN SkipWhitespace(text, pos + 1) ELSE pos

\* datetime.strptime(text, "%Y-%m-%d %H:%M:%S"): whether it returns, rather
\* than raises ValueError (no match, unconverted data, a field out of range)
strptime(text) ==
  LET Y == DirectiveYear(text, 1)
      m == Directive(text, Y.pos + 1, 1..12, 1..9)
      d == DirectiveDay(text, m.pos + 1)
      sp == SkipWhitespace(text, d.pos)
      H == Directive(text, sp, 0..23, 0..9)
      M == Directive(text, H.pos + 1, 0..59, 0..9)
      S == Directive(text, M.pos + 1, 0..61, 0..9)
  IN /\ Y.ok /\ Literal(text, Y.pos, "-")
     /\ m.ok /\ Literal(text, m.pos, "-")
     /\ d.ok /\ sp > d.pos
     /\ H.ok /\ Literal(text, H.pos, ":")
     /\ M.ok /\ Literal(text, M.pos, ":")
     /\ S.ok /\ S.pos = Len(text) + 1
     /\ Y.val >= 1
     /\ d.val <= DaysInMonth(Y.val, m.val)
     /\ S.val <= 59

\* the day before and the day after a date
PrevDay(dt) ==
  IF dt.day > 1 THEN [dt EXCEPT !.day = dt.day - 1]
  ELSE IF dt.month > 1
  THEN [dt EXCEPT !.month = dt.month - 1, !.day = DaysInMonth(dt.year, dt.month - 1)]
  ELSE [dt EXCEPT !.year = dt.year - 1, !.month = 12, !.day = 31]

NextDay(dt) ==
  IF dt.day < DaysInMonth(dt.year, dt.month) THEN [dt EXCEPT !.day = dt.day + 1]
  ELSE IF dt.month < 12 THEN [dt EXCEPT !.month = dt.month + 1, !.day = 1]
  ELSE [dt EXCEPT !.year = dt.year + 1, !.month = 1, !.day = 1]

\* timestamp.astimezone(datetime.timezone.utc)
astimezone(dt) ==
  LET hour == dt.hour - dt.utcoffset
  IN IF hour < 0 THEN [PrevDay(dt) EXCEPT !.hour = hour + 24, !.utcoffset = 0]
     ELSE IF hour > 23 THEN [NextDay(dt) EXCEPT !.hour = hour - 24, !.utcoffset = 0]
     ELSE [dt EXCEPT !.hour = hour, !.utcoffset = 0]

\* a number in two and in four digits
Pad2(n) == <<DigitChars[(n \div 10) + 1], DigitChars[(n % 10) + 1]>>

Pad4(n) == Pad2(n \div 100) \o Pad2(n % 100)

\* dt.strftime("%Y-%m-%d %H:%M:%S")
strftime(dt) ==
  Pad4(dt.year) \o <<"-">> \o Pad2(dt.month) \o <<"-">> \o Pad2(dt.day) \o <<" ">>
  \o Pad2(dt.hour) \o <<":">> \o Pad2(dt.minute) \o <<":">> \o Pad2(dt.second)

\* validate_timestamp: a datetime is rendered in UTC, a str that strptime
\* parses is returned as it is, everything else raises ValueError
validate_timestamp(timestamp) ==
  CASE timestamp.type = "datetime" -> [ok |-> TRUE, date |-> strftime(astimezone(timestamp))]
    [] timestamp.type = "str" /\ strptime(timestamp.text) -> [ok |-> TRUE, date |-> timestamp.text]
    [] OTHER -> [ok |-> FALSE, date |-> <<>>]

\* what session.post can do within add_data
NetOutcomes == {"ok", "http_error", "timeout", "conn_error", "unexpected"}

\* add_data, were a rejected timestamp to return False without recording it
add_data_unrecorded(timestamp, net) ==
  LET v == validate_timestamp(timestamp)
  IN IF ~v.ok
     THEN [raised |-> FALSE, ret |-> FALSE, appended |-> <<>>, posted |-> FALSE, date |-> <<>>]
     ELSE IF net = "ok"
          THEN [raised |-> FALSE, ret |-> TRUE, appended |-> <<TRUE>>, posted |-> TRUE,
                date |-> v.date]
          ELSE [raised |-> net = "unexpected", ret |-> FALSE,
                appended |-> IF net = "unexpected" THEN <<>> ELSE <<FALSE>>, posted |-> TRUE,
                date |-> v.date]

\* add_data(timestamp, data) run to its end: the value returned (raised: an
\* exception other than a RequestException left it), the outcomes it appended,
\* whether a request was issued and the "date" of its payload
add_data(timestamp, net) ==
  LET v == validate_timestamp(timestamp)
  IN IF ~v.ok
     THEN [raised |-> FALSE, ret |-> FALSE, appended |-> <<FALSE>>, posted |-> FALSE,
           date |-> <<>>]
     ELSE CASE net = "ok" ->
                [raised |-> FALSE, ret |-> TRUE, appended |-> <<TRUE>>, posted |-> TRUE,
                 date |-> v.date]
            [] net \in {"timeout", "conn_error", "http_error"} ->
                [raised |-> FALSE, ret |-> FALSE, appended |-> <<FALSE>>, posted |-> TRUE,
                 date |-> v.date]
            [] OTHER ->
                [raised |-> TRUE, ret |-> FALSE, appended |-> <<>>, posted |-> TRUE,
                 date |-> v.date]

\* the timestamp of a task of the loop: datetime.fromtimestamp, a naive
\* datetime in local time
TaskTimestamp == DateTime(2024, 1, 5, 3, 4, 5, 1)

\* what func_timeout(SLOW_TIMEOUT, add_data, ...) can do in the worker: add_data
\* ends in time with one of NetOutcomes, or the deadline passes and add_data's
\* thread gets FunctionTimedOut raised in it, inside session.post (where
\* add_data catches it) or elsewhere in add_data (where nothing catches it)
PushOutcomes == NetOutcomes \cup {"deadline_in_post", "deadline_elsewhere"}

\* C11 mutant: only a 2xx response leaves an outcome in the tracker
PushAppendedOnSuccess(timestamp, outcome) == IF outcome = "ok" THEN <<TRUE>> ELSE <<>>

\* the outcomes appended to success_tracker by one func_timeout(add_data) call
PushAppended(timestamp, outcome) ==
  CASE outcome \in NetOutcomes -> add_data(timestamp, outcome).appended
    [] outcome = "deadline_in_post" -> <<FALSE>>
    [] OTHER -> <<>>

RECURSIVE TrackerAppendAll(_, _)
TrackerAppendAll(tracker, outcomes) ==
  IF outcomes = <<>> THEN tracker
  ELSE TrackerAppendAll(TrackerAppend(tracker, Head(outcomes)), Tail(outcomes))

\* the outcomes the service lets a push have
ServiceOutcomes ==
  CASE service = "up" -> {"ok"}
    [] service = "down" -> {"timeout"}
    [] OTHER -> PushOutcomes

\* C1 mutant: a queue that takes a new item at its front
put_front(q, item) == <<item>> \o q

\* queue.put_nowait / queue.put on a queue with room: the item goes to the end
put_nowait(q, item) == Append(q, item)

\* C14 mutant: a send onto a queue without a capacity
SendPutUnbounded(q, on) == IF ~on THEN "none" ELSE "put"

\* send, up to put_nowait: "full" where queue.Full is raised, "none" on a
\* disabled client (the call is swallowed), "put" where the task is enqueued
SendPut(q, on) ==
  IF ~on THEN "none" ELSE IF Len(q) >= QueueSize THEN "full" ELSE "put"

\* C4 mutant: the share of successes in the tracker
SuccessRatio(tracker) ==
  [kind |-> "ratio", failed |-> Len(tracker) - CountFalse(tracker), len |-> Len(tracker)]

\* the return value of send: success_tracker.count(False) / len(success_tracker)
SendRatio(tracker) == [kind |-> "ratio", failed |-> CountFalse(tracker), len |-> Len(tracker)]

\* C30 mutant: thresholds of one half and nine tenths
RatioNoticeRounded(r) ==
  IF 100 * r.failed > 50 * r.len
  THEN IF 100 * r.failed > 90 * r.len THEN "[Error]-website" ELSE "[Warning]-website"
  ELSE "none"

\* the notification the loop publishes for a fail rate: above 0.49 a warning,
\* above 0.89 an error
RatioNotice(r) ==
  IF 100 * r.failed > 49 * r.len
  THEN IF 100 * r.failed > 89 * r.len THEN "[Error]-website" ELSE "[Warning]-website"
  ELSE "none"

\* ------------------------------------------------------------------------
\* Sensor_Node.start: one iteration of the acquisition loop
\* ------------------------------------------------------------------------

\* the CSV part of an iteration: the local data_dict after it, and the row
\* written. A transform that raises leaves data_dict as the earlier iterations
\* left it; write_ok: whether CsvStorage.write succeeds.
\* min_time of the notifier, in the half seconds of wall, scaled down from 3 h
MinTime == 3

\* the test of publish, were a message due as soon as min_time has passed
PublishDueAtLeast(previous, now) == previous = Unset \/ now - previous >= MinTime

\* the test of publish: no message of the topic yet, or the last one more
\* than min_time ago
PublishDue(previous, now) == previous = Unset \/ now - previous > MinTime

\* publish(message, topic) at time now on a notifier np: last_publish, and
\* sent, the topics of the messages the socket has sent
publish(np, topic, now) ==
  IF PublishDue(np.last_publish[topic], now)
  THEN [last_publish |-> [np.last_publish EXCEPT ![topic] = now], sent |-> Append(np.sent, topic)]
  ELSE np

\* the calls of publish one after another on the topics given
RECURSIVE PublishAll(_, _, _)
PublishAll(np, topics, now) ==
  IF topics = <<>> THEN np
  ELSE PublishAll(publish(np, Head(topics), now), Tail(topics), now)

\* the notifier after the loop has called publish on topics at time now
Notify(topics, now) ==
  \E np \in {PublishAll([last_publish |-> last_publish, sent |-> <<>>], topics, now)} :
     /\ last_publish' = np.last_publish
     /\ sent_at' = [t \in Topics |->
                      IF \E i \in 1..Len(np.sent) : np.sent[i] = t THEN now ELSE sent_at[t]]
     /\ pub_call' =
          IF topics = <<>> THEN pub_call
          ELSE [topic |-> topics[Len(topics)], at |-> now,
                sent |-> \E i \in 1..Len(np.sent) : np.sent[i] = topics[Len(topics)]]

\* the topics an iteration publishes on: csv_error when the CSV part failed,
\* then website_error when send raised
IterationTopics(stored, csv_failed, put) ==
  (IF stored /\ csv_failed THEN <<"csv_error">> ELSE <<>>)
    \o (IF stored /\ put \in {"full", "skip"} THEN <<"website_error">> ELSE <<>>)

CsvPart(payload, now, dict, write_ok) ==
  LET tr == CsvTransform(payload)
  IN [dict |-> IF tr.ok THEN [bound |-> TRUE, vals |-> tr.data] ELSE dict,
      row |-> IF tr.ok /\ write_ok THEN <<(<<now>> \o tr.data)>> ELSE <<>>]

\* whether the loop stores and forwards a classified record
IsStored(header) == header # <<>> /\ header[2] = 1

\* C15 mutant: a loop that the RuntimeError of send ends
AfterSendFatal(put) ==
  CASE put = "put" -> "ratio"
    [] put = "full" -> "crashed"
    [] OTHER -> "read"

\* where the loop is after the cloud part: inside send once the task is in the
\* queue; otherwise (no send, a swallowed send, an exception of send, which
\* the except clauses catch) at reading the next line
AfterSend(put) == IF put = "put" THEN "ratio" ELSE "read"

\* get_next, classify_message, publish, the CSV part and the cloud part up to
\* put_nowait
LoopIteration(line, write_ok) ==
  /\ loop_pc = "read"
  /\ stop_pc = "idle"
  /\ enabled => thread_started
  /\ \E c \in {classify_message(node_handle, line, mu_id, mu_mm, clock + 1)} :
     \E csv \in {IF IsStored(c.header)
                 THEN CsvPart(c.payload, clock + 1, data_dict, write_ok)
                 ELSE [dict |-> data_dict, row |-> <<>>]} :
     \E put \in {IF IsStored(c.header) /\ csv.dict.bound THEN SendPut(queue, enabled) ELSE "skip"} :
     \E new_task \in {[timestamp |-> clock + 1, data |-> csv.dict.vals, none |-> FALSE]} :
        /\ clock' = clock + 1
        /\ mu_id' = c.mu_id
        /\ mu_mm' = c.mu_mm
        /\ last' = [line |-> line, header |-> c.header, payload |-> c.payload, raised |-> c.raised]
        /\ hdr_seen' = IF c.header # <<>> /\ c.header[2] = 0 THEN <<c.mu_id, c.mu_mm>> ELSE hdr_seen
        /\ data_dict' = csv.dict
        /\ csv_rows' = csv_rows \o csv.row
        /\ queue' = IF put = "put" THEN put_nowait(queue, new_task) ELSE queue
        /\ enqueued' = IF put = "put" THEN Append(enqueued, new_task) ELSE enqueued
        /\ loop_pc' = IF c.raised THEN "crashed" ELSE AfterSend(put)
        /\ handoff' =
             IF ~IsStored(c.header)
             THEN [pub |-> c.header # <<>>, csv |-> "none", cloud |-> "none"]
             ELSE [pub |-> TRUE,
                   csv |-> IF csv.row # <<>> THEN "written" ELSE "failed",
                   cloud |-> CASE put = "none" -> "swallowed"
                               [] put = "skip" -> "unbound"
                               [] OTHER -> put]
        /\ send_result' =
             CASE put = "put" -> NoSend
               [] put = "full" -> [kind |-> "RuntimeError", failed |-> 0, len |-> 0]
               [] put = "none" -> [kind |-> "None", failed |-> 0, len |-> 0]
               [] IsStored(c.header) -> [kind |-> "UnboundLocalError", failed |-> 0, len |-> 0]
               [] OTHER -> send_result
        /\ notice' =
             CASE IsStored(c.header) /\ put \in {"full", "skip"} -> "website_error"
               [] IsStored(c.header) /\ csv.row = <<>> -> "csv_error"
               [] OTHER -> "none"
        /\ Notify(IterationTopics(IsStored(c.header), csv.row = <<>>, put), wall)
  /\ UNCHANGED <<node_handle, enabled, stop_event, thread_started, success_tracker>>
  /\ UNCHANGED <<workerVars, stop_pc, service, apiVars, muVars>>

\* send returns the failure ratio and the loop publishes by it
SendReturn ==
  /\ loop_pc = "ratio"
  /\ stop_pc = "idle"
  /\ send_result' = SendRatio(success_tracker)
  /\ notice' = IF RatioNotice(SendRatio(success_tracker)) # "none"
               THEN RatioNotice(SendRatio(success_tracker)) ELSE notice
  /\ loop_pc' = "read"
  /\ Notify(IF RatioNotice(SendRatio(success_tracker)) # "none"
            THEN <<RatioNotice(SendRatio(success_tracker))>> ELSE <<>>, wall)
  /\ UNCHANGED <<data_dict, csv_rows, enqueued, handoff>>
  /\ UNCHANGED <<sensorVars, clientVars, workerVars, stop_pc, service, apiVars, muVars>>

\* ------------------------------------------------------------------------
\* HTTPClient.start, _data_processing_thread, stop
\* ------------------------------------------------------------------------

\* start(): on a disabled client the call is swallowed
ClientStart ==
  /\ enabled
  /\ ~thread_started
  /\ worker_pc = "unstarted"
  /\ stop_pc = "idle"
  /\ thread_started' = TRUE
  /\ worker_pc' = "check"
  /\ UNCHANGED <<node_handle, enabled, queue, stop_event, success_tracker>>
  /\ UNCHANGED <<task, exit_reason, pushed, last_push, delivered>>
  /\ UNCHANGED <<sensorVars, loopVars, stop_pc, service, apiVars, muVars>>

\* C12 mutant: a worker that, with the flag set, first drains the queue
WorkerCheckDraining ==
  /\ worker_pc = "check"
  /\ worker_pc' = IF stop_event /\ queue = <<>> THEN "exited" ELSE "get"
  /\ exit_reason' = IF stop_event /\ queue = <<>> THEN "flag" ELSE exit_reason
  /\ UNCHANGED <<task, pushed, last_push, delivered>>
  /\ UNCHANGED <<sensorVars, loopVars, clientVars, stop_pc, service, apiVars, muVars>>

\* while not self._stop_event.is_set()
WorkerCheck ==
  /\ worker_pc = "check"
  /\ worker_pc' = IF stop_event THEN "exited" ELSE "get"
  /\ exit_reason' = IF stop_event THEN "flag" ELSE exit_reason
  /\ UNCHANGED <<task, pushed, last_push, delivered>>
  /\ UNCHANGED <<sensorVars, loopVars, clientVars, stop_pc, service, apiVars, muVars>>

\* timestamp, data = self.queue.get(); if data is None: break
WorkerGet ==
  /\ worker_pc = "get"
  /\ queue # <<>>
  /\ queue' = Tail(queue)
  /\ IF Head(queue).none
     THEN /\ worker_pc' = "exited"
          /\ exit_reason' = "sentinel"
          /\ task' = task
     ELSE /\ worker_pc' = "push"
          /\ exit_reason' = exit_reason
          /\ task' = Head(queue)
  /\ UNCHANGED <<pushed, last_push, delivered>>
  /\ UNCHANGED <<node_handle, enabled, stop_event, thread_started, success_tracker>>
  /\ UNCHANGED <<sensorVars, loopVars, stop_pc, service, apiVars, muVars>>

\* C10 mutant: a worker that an unexpected exception of add_data ends
AfterPushFatal(outcome) == IF outcome = "unexpected" THEN "exited" ELSE "check"

\* where the worker goes after func_timeout(add_data) ended with outcome
AfterPush(outcome) == "check"

\* C13 mutant: a worker that tries a task again until its push succeeds
WorkerPushRetrying(outcome) ==
  /\ worker_pc = "push"
  /\ outcome \in ServiceOutcomes
  /\ success_tracker' = TrackerAppendAll(success_tracker, PushAppended(TaskTimestamp, outcome))
  /\ pushed' = Append(pushed, task)
  /\ last_push' = [outcome |-> outcome, appended |-> PushAppended(TaskTimestamp, outcome)]
  /\ delivered' = IF outcome = "ok" THEN Append(delivered, task) ELSE delivered
  /\ worker_pc' = IF outcome = "ok" THEN "check" ELSE "push"
  /\ exit_reason' = exit_reason
  /\ task' = IF outcome = "ok" THEN NoTask ELSE task
  /\ UNCHANGED <<node_handle, enabled, queue, stop_event, thread_started>>
  /\ UNCHANGED <<sensorVars, loopVars, stop_pc, service, apiVars, muVars>>

\* func_timeout(SLOW_TIMEOUT, self.add_data, ...), the except clauses and
\* task_done: whatever the outcome, back to the loop condition
WorkerPush(outcome) ==
  /\ worker_pc = "push"
  /\ outcome \in ServiceOutcomes
  /\ success_tracker' = TrackerAppendAll(success_tracker, PushAppended(TaskTimestamp, outcome))
  /\ pushed' = Append(pushed, task)
  /\ last_push' = [outcome |-> outcome, appended |-> PushAppended(TaskTimestamp, outcome)]
  /\ delivered' = IF outcome = "ok" THEN Append(delivered, task) ELSE delivered
  /\ worker_pc' = AfterPush(outcome)
  /\ exit_reason' = IF AfterPush(outcome) = "exited" THEN "exception" ELSE exit_reason
  /\ task' = NoTask
  /\ UNCHANGED <<node_handle, enabled, queue, stop_event, thread_started>>
  /\ UNCHANGED <<sensorVars, loopVars, stop_pc, service, apiVars, muVars>>

\* stop(): self._stop_event.set(); a disabled or unstarted client does nothing
StopCall ==
  /\ stop_pc = "idle"
  /\ enabled => thread_started
  /\ IF enabled /\ thread_started
     THEN stop_event' = TRUE /\ stop_pc' = "put"
     ELSE stop_event' = stop_event /\ stop_pc' = "done"
  /\ UNCHANGED <<node_handle, enabled, queue, thread_started, success_tracker>>
  /\ UNCHANGED <<sensorVars, loopVars, workerVars, service, apiVars, muVars>>

\* whether queue.put((None, None)) can go on: put blocks while the queue is full
StopPutReady(q) == Len(q) < QueueSize

\* self.queue.put((None, None))
StopPut ==
  /\ stop_pc = "put"
  /\ StopPutReady(queue)
  /\ queue' = put_nowait(queue, Sentinel)
  /\ stop_pc' = "join"
  /\ UNCHANGED <<node_handle, enabled, stop_event, thread_started, success_tracker>>
  /\ UNCHANGED <<sensorVars, loopVars, workerVars, service, apiVars, muVars>>

\* self.thread.join(); self.thread_started = False
StopJoin ==
  /\ stop_pc = "join"
  /\ worker_pc = "exited"
  /\ thread_started' = FALSE
  /\ stop_pc' = "done"
  /\ UNCHANGED <<node_handle, enabled, queue, stop_event, success_tracker>>
  /\ UNCHANGED <<sensorVars, loopVars, workerVars, service, apiVars, muVars>>

\* ------------------------------------------------------------------------
\* HTTPClient: nodes and data fields
\* ------------------------------------------------------------------------

\* what a request of a listing or registration call can meet
ClientNet == {"ok", "http_error", "timeout", "conn_error"}

\* the handles the calls are made with
Handles == {HostDev, HostUnmapped}

\* the handles of the data fields the service holds
ServiceFields == {"temp_external", "air_pressure"}

\* a GET wrapped in try/except requests.exceptions.Timeout: a timeout and a
\* non-2xx response give None, a connection error is not caught, a 2xx
\* response replaces the cached list by what the service holds
FetchList(known, held, net) ==
  CASE net = "ok" ->
         [raised |-> FALSE, ret |-> "data", known |-> [fetched |-> TRUE, handles |-> held]]
    [] net \in {"timeout", "http_error"} ->
         [raised |-> FALSE, ret |-> "None", known |-> known]
    [] OTHER ->
         [raised |-> TRUE, ret |-> "ConnectionError", known |-> known]

\* get_nodes()
get_nodes(known, held, net) == FetchList(known, held, net)

\* get_data_fields()
get_data_fields(known, held, net) == FetchList(known, held, net)

\* node_exists(node_handle, force_refresh): the list is fetched only when it
\* is None or a refresh is forced
node_exists(known, held, handle, force_refresh, net) ==
  IF ~known.fetched \/ force_refresh
  THEN LET g == get_nodes(known, held, net)
       IN [raised |-> g.raised,
           ret |-> IF g.raised THEN g.ret
                   ELSE IF g.known.fetched /\ handle \in g.known.handles THEN "True" ELSE "False",
           known |-> g.known, requests |-> <<"GET nodes">>]
  ELSE [raised |-> FALSE,
        ret |-> IF handle \in known.handles THEN "True" ELSE "False",
        known |-> known, requests |-> <<>>]

\* a POST wrapped in try/except requests.exceptions.Timeout
PostResult(net) ==
  CASE net = "ok" -> [raised |-> FALSE, ret |-> "True"]
    [] net \in {"timeout", "http_error"} -> [raised |-> FALSE, ret |-> "False"]
    [] OTHER -> [raised |-> TRUE, ret |-> "ConnectionError"]

\* whether the service has carried out a POST: always when it answered 2xx,
\* possibly (reached) when the client timed out waiting for the answer
PostDone(net, reached) == net = "ok" \/ (net = "timeout" /\ reached)

\* add_node(node_handle, display_name): nothing is posted when node_exists
\* says the node is there; known_nodes is not touched by the POST
add_node(known, held, handle, net_get, net_post, reached) ==
  LET e == node_exists(known, held, handle, FALSE, net_get)
  IN IF e.raised
     THEN [raised |-> TRUE, ret |-> e.ret, known |-> e.known, held |-> held,
           requests |-> e.requests]
     ELSE IF e.ret = "True"
     THEN [raised |-> FALSE, ret |-> "False", known |-> e.known, held |-> held,
           requests |-> e.requests]
     ELSE [raised |-> PostResult(net_post).raised, ret |-> PostResult(net_post).ret,
           known |-> e.known,
           held |-> IF PostDone(net_post, reached) THEN held \cup {handle} ELSE held,
           requests |-> e.requests \o <<"POST nodes">>]

\* where add_node can be when the deadline of func_timeout passes
Deadlines == {"none", "in_get", "in_post", "elsewhere"}

\* register_node(): add_node under func_timeout. In time, add_node's result is
\* dropped and an exception of add_node is raised again. Past the deadline the
\* caller gets FunctionTimedOut, which register_node catches, and add_node's
\* thread gets it raised where it is: in the GET, get_nodes catches it, so
\* node_exists says False and the thread goes on to the POST; in the POST,
\* add_node catches it and returns; elsewhere the thread ends before the POST
register_node(known, held, handle, net_get, net_post, reached, deadline) ==
  LET a == add_node(known, held, handle, net_get, net_post, reached)
      e == node_exists(known, held, handle, FALSE, net_get)
  IN CASE deadline = "none" ->
            [a EXCEPT !.ret = IF a.raised THEN a.ret ELSE "None"]
       [] deadline = "in_get" /\ e.requests # <<>> ->
            [raised |-> FALSE, ret |-> "None", known |-> known,
             held |-> IF PostDone(net_post, reached) THEN held \cup {handle} ELSE held,
             requests |-> <<"GET nodes", "POST nodes">>]
       [] deadline = "in_post" /\ Len(a.requests) > Len(e.requests) ->
            [raised |-> FALSE, ret |-> "None", known |-> a.known,
             held |-> IF reached THEN held \cup {handle} ELSE held,
             requests |-> a.requests]
       [] OTHER ->
            [raised |-> FALSE, ret |-> "None", known |-> e.known, held |-> held,
             requests |-> e.requests]

\* the call record of a method call on a disabled client: swallowed, None
Swallowed(op, handle) ==
  [op |-> op, handle |-> handle, raised |-> FALSE, ret |-> "None", requests |-> <<>>,
   timestamp |-> NoTimestamp, date |-> <<>>, force_refresh |-> FALSE, response |-> "none"]

ApiFrame ==
  /\ UNCHANGED <<sensorVars, loopVars, workerVars, stop_pc, service, muVars>>
  /\ UNCHANGED <<node_handle, enabled, queue, stop_event, thread_started>>

GetNodesCall(net) ==
  /\ n_calls' = n_calls + 1
  /\ IF enabled
     THEN \E g \in {get_nodes(known_nodes, service_nodes, net)} :
            /\ known_nodes' = g.known
            /\ call' = [op |-> "get_nodes", handle |-> <<>>, raised |-> g.raised,
                        ret |-> g.ret, requests |-> <<"GET nodes">>,
                        timestamp |-> NoTimestamp, date |-> <<>>, force_refresh |-> FALSE, response |-> "none"]
     ELSE known_nodes' = known_nodes /\ call' = Swallowed("get_nodes", <<>>)
  /\ UNCHANGED <<known_data_fields, service_nodes, success_tracker>>
  /\ ApiFrame

GetDataFieldsCall(net) ==
  /\ n_calls' = n_calls + 1
  /\ IF enabled
     THEN \E g \in {get_data_fields(known_data_fields, ServiceFields, net)} :
            /\ known_data_fields' = g.known
            /\ call' = [op |-> "get_data_fields", handle |-> <<>>, raised |-> g.raised,
                        ret |-> g.ret, requests |-> <<"GET data-field">>,
                        timestamp |-> NoTimestamp, date |-> <<>>, force_refresh |-> FALSE, response |-> "none"]
     ELSE known_data_fields' = known_data_fields /\ call' = Swallowed("get_data_fields", <<>>)
  /\ UNCHANGED <<known_nodes, service_nodes, success_tracker>>
  /\ ApiFrame

NodeExistsCall(handle, force_refresh, net) ==
  /\ n_calls' = n_calls + 1
  /\ IF enabled
     THEN \E e \in {node_exists(known_nodes, service_nodes, handle, force_refresh, net)} :
            /\ known_nodes' = e.known
            /\ call' = [op |-> "node_exists", handle |-> handle, raised |-> e.raised,
                        ret |-> e.ret, requests |-> e.requests,
                        timestamp |-> NoTimestamp, date |-> <<>>,
                        force_refresh |-> force_refresh, response |-> "none"]
     ELSE /\ known_nodes' = known_nodes
          /\ call' = [Swallowed("node_exists", handle) EXCEPT !.force_refresh = force_refresh]
  /\ UNCHANGED <<known_data_fields, service_nodes, success_tracker>>
  /\ ApiFrame

AddNodeCall(handle, net_get, net_post, reached) ==
  /\ n_calls' = n_calls + 1
  /\ IF enabled
     THEN \E a \in {add_node(known_nodes, service_nodes, handle, net_get, net_post, reached)} :
            /\ known_nodes' = a.known
            /\ service_nodes' = a.held
            /\ call' = [op |-> "add_node", handle |-> handle, raised |-> a.raised,
                        ret |-> a.ret, requests |-> a.requests,
                        timestamp |-> NoTimestamp, date |-> <<>>, force_refresh |-> FALSE, response |-> "none"]
     ELSE /\ known_nodes' = known_nodes
          /\ service_nodes' = service_nodes
          /\ call' = Swallowed("add_node", handle)
  /\ UNCHANGED <<known_data_fields, success_tracker>>
  /\ ApiFrame

RegisterNodeCall(net_get, net_post, reached, deadline) ==
  /\ n_calls' = n_calls + 1
  /\ IF enabled
     THEN \E a \in {register_node(known_nodes, service_nodes, node_handle,
                                  net_get, net_post, reached, deadline)} :
            /\ known_nodes' = a.known
            /\ service_nodes' = a.held
            /\ call' = [op |-> "register_node", handle |-> node_handle, raised |-> a.raised,
                        ret |-> a.ret, requests |-> a.requests,
                        timestamp |-> NoTimestamp, date |-> <<>>, force_refresh |-> FALSE, response |-> "none"]
     ELSE /\ known_nodes' = known_nodes
          /\ service_nodes' = service_nodes
          /\ call' = Swallowed("register_node", node_handle)
  /\ UNCHANGED <<known_data_fields, success_tracker>>
  /\ ApiFrame

\* delete_node(node_handle): a POST through the session
DeleteNodeCall(handle, net, reached) ==
  /\ n_calls' = n_calls + 1
  /\ IF enabled
     THEN /\ service_nodes' = IF PostDone(net, reached)
                              THEN service_nodes \ {handle} ELSE service_nodes
          /\ call' = [op |-> "delete_node", handle |-> handle,
                      raised |-> PostResult(net).raised, ret |-> PostResult(net).ret,
                      requests |-> <<"POST nodes/delete">>,
                        timestamp |-> NoTimestamp, date |-> <<>>, force_refresh |-> FALSE, response |-> "none"]
     ELSE service_nodes' = service_nodes /\ call' = Swallowed("delete_node", handle)
  /\ UNCHANGED <<known_nodes, known_data_fields, success_tracker>>
  /\ ApiFrame

\* timestamp strings: "2024-01-05 03:04:05", "2024-02-29 23:59:59",
\* "2024-1-5 3:4:5", "2024-01-05  03:04:05", "2024-13-05 03:04:05",
\* "2024-02-30 00:00:00", "2024-01-05T03:04:05"
TsPadded == <<"2", "0", "2", "4", "-", "0", "1", "-", "0", "5", " ", "0", "3", ":", "0", "4", ":", "0", "5">>

TsLeapDay == <<"2", "0", "2", "4", "-", "0", "2", "-", "2", "9", " ", "2", "3", ":", "5", "9", ":", "5", "9">>

TsUnpadded == <<"2", "0", "2", "4", "-", "1", "-", "5", " ", "3", ":", "4", ":", "5">>

TsTwoSpaces == <<"2", "0", "2", "4", "-", "0", "1", "-", "0", "5", " ", " ", "0", "3", ":", "0", "4", ":", "0", "5">>

TsMonth13 == <<"2", "0", "2", "4", "-", "1", "3", "-", "0", "5", " ", "0", "3", ":", "0", "4", ":", "0", "5">>

TsFeb30 == <<"2", "0", "2", "4", "-", "0", "2", "-", "3", "0", " ", "0", "0", ":", "0", "0", ":", "0", "0">>

TsIso == <<"2", "0", "2", "4", "-", "0", "1", "-", "0", "5", "T", "0", "3", ":", "0", "4", ":", "0", "5">>

\* the timestamps add_data is called with: datetimes (naive and aware, the
\* UTC day the same, the day before, the day after), strings, something else
Timestamps ==
  {TaskTimestamp, DateTime(2024, 1, 1, 0, 30, 0, 2), DateTime(2024, 2, 28, 23, 0, 0, -5),
   DateTime(2023, 12, 31, 22, 0, 0, -3),
   Str(TsPadded), Str(TsLeapDay), Str(TsUnpadded), Str(TsTwoSpaces), Str(TsMonth13),
   Str(TsFeb30), Str(TsIso), Str(<<>>), OtherValue}

\* the timestamps of the calls that fill the success tracker
WindowTimestamps == {TaskTimestamp, Str(TsPadded), Str(TsIso)}

\* add_data(timestamp, data) called directly
AddDataCall(timestamp, net) ==
  /\ n_calls' = n_calls + 1
  /\ IF enabled
     THEN \E d \in {add_data(timestamp, net)} :
            /\ success_tracker' = TrackerAppendAll(success_tracker, d.appended)
            /\ call' = [op |-> "add_data", handle |-> node_handle, raised |-> d.raised,
                        ret |-> IF d.raised THEN "Exception"
                                ELSE IF d.ret THEN "True" ELSE "False",
                        requests |-> IF d.posted THEN <<"POST sensordata">> ELSE <<>>,
                        timestamp |-> timestamp, date |-> d.date, force_refresh |-> FALSE,
                        response |-> IF d.posted THEN net ELSE "none"]
     ELSE /\ success_tracker' = success_tracker
          /\ call' = [Swallowed("add_data", node_handle) EXCEPT !.timestamp = timestamp]
  /\ UNCHANGED <<known_nodes, known_data_fields, service_nodes>>
  /\ ApiFrame

\* ------------------------------------------------------------------------
\* Cybres_MU: watchdogs, find_start, get_next
\* ------------------------------------------------------------------------

\* multipliers a watchdog is constructed with: the 3 of Cybres_MU and one
\* above 5
Multipliers == {3, 7}

\* measurement intervals, in half seconds: 1 s, 1.5 s, 2 s
BaseIntervals == {2, 3, 4}

\* what the wall clock advances by between two steps
TimeSteps == {1, 3}

\* time passes
TimePasses(dt) ==
  /\ wall + dt <= MaxWall
  /\ wall' = wall + dt
  /\ UNCHANGED <<watchdogs, wd_ret, wd_call, decVars, devVars>>
  /\ UNCHANGED <<sensorVars, loopVars, clientVars, workerVars, stop_pc, service, apiVars>>

\* a call of check on watchdog w
WatchdogCheck(w, data, target) ==
  /\ \E o \in {check(watchdogs[w], data, target, wall)} :
        /\ watchdogs' = [watchdogs EXCEPT ![w] = o.wd]
        /\ wd_ret' = [wd_ret EXCEPT ![w] = o.ret]
  /\ wd_call' = [op |-> "check", w |-> w, data |-> data, target |-> target, arg |-> 0]
  /\ UNCHANGED <<wall, decVars, devVars>>
  /\ UNCHANGED <<sensorVars, loopVars, clientVars, workerVars, stop_pc, service, apiVars>>

\* a call of update_limit on watchdog w
UpdateLimit(w, timeout_value) ==
  /\ watchdogs' = [watchdogs EXCEPT ![w] = update_limit(watchdogs[w], timeout_value)]
  /\ wd_call' = [op |-> "update_limit", w |-> w, data |-> "", target |-> "",
                 arg |-> timeout_value]
  /\ UNCHANGED <<wall, wd_ret, decVars, devVars>>
  /\ UNCHANGED <<sensorVars, loopVars, clientVars, workerVars, stop_pc, service, apiVars>>

\* the time a read of one unit takes: a read that yields nothing has waited
\* for the timeout of the port
ReadTime(unit) == IF unit = "" THEN ReadTimeout ELSE 0

\* C22 mutant: a decoder that gives up when a watchdog is past its limit
AfterCheckRaising(ret, pc) == IF ~ret.ok THEN "raised" ELSE pc

\* "if warn: logging.error(...)": a report is logged and the loop goes on
AfterCheck(ret, pc) == pc

\* the call of get_next: line = "", and find_start unless the last unit read
\* was the start marker
GetNextCall ==
  /\ dec_pc = "idle"
  /\ line_buf' = <<>>
  /\ dec_pc' = IF start_char # "A" THEN "seeking" ELSE "inframe"
  /\ UNCHANGED <<start_char, lines_out, unit_at, wdVars>>

\* self.ser.read(1).decode("ascii") raises UnicodeDecodeError, which neither
\* find_start nor get_next catches: the call ends there
DecodeRaises ==
  /\ dec_pc' = "raised"
  /\ UNCHANGED <<start_char, line_buf, lines_out, unit_at, wdVars>>

\* one turn of the loop of find_start on the byte read
FindStartRead(byte) ==
  /\ dec_pc = "seeking"
  /\ IF byte = NonAscii
     THEN DecodeRaises
     ELSE /\ wall + ReadTime(byte) <= MaxWall
          /\ wall' = wall + ReadTime(byte)
          /\ \E d \in {check(watchdogs["data"], byte, ".+", wall')} :
             \E f \in {check(watchdogs["frame"], byte, "A", wall')} :
                /\ watchdogs' = [watchdogs EXCEPT !["data"] = d.wd, !["frame"] = f.wd]
                /\ wd_ret' = [wd_ret EXCEPT !["data"] = d.ret, !["frame"] = f.ret]
                /\ dec_pc' = IF AfterCheck(d.ret, "seeking") = "raised"
                             THEN "raised"
                             ELSE AfterCheck(f.ret, IF byte = "A" THEN "inframe" ELSE "seeking")
          /\ wd_call' = [op |-> "check", w |-> "frame", data |-> byte, target |-> "A",
                         arg |-> 0]
          /\ start_char' = IF byte = "A" THEN byte ELSE start_char
          /\ unit_at' = IF byte = "" THEN unit_at ELSE wall'
          /\ UNCHANGED <<line_buf, lines_out>>

\* line[:-1]
DropLast(line) == IF line = <<>> THEN <<>> ELSE SubSeq(line, 1, Len(line) - 1)

\* C32 mutant: the buffer returned as it is
ReturnedLineWhole(line) == line

\* the line get_next returns for the buffer it has read
ReturnedLine(line) == DropLast(line)

\* one turn of the loop of get_next on the byte read; the end marker ends the
\* call, any other unit is appended to the line
GetNextRead(byte) ==
  /\ dec_pc = "inframe"
  /\ IF byte = NonAscii
     THEN DecodeRaises
     ELSE /\ wall + ReadTime(byte) <= MaxWall
          /\ wall' = wall + ReadTime(byte)
          /\ \E f \in {check(watchdogs["frame"], byte, "Z", wall')} :
                /\ watchdogs' = [watchdogs EXCEPT !["frame"] = f.wd]
                /\ wd_ret' = [wd_ret EXCEPT !["frame"] = f.ret]
                /\ dec_pc' = AfterCheck(f.ret, IF byte = "Z" THEN "idle" ELSE "inframe")
                /\ lines_out' = IF byte = "Z" /\ AfterCheck(f.ret, "idle") = "idle"
                                THEN Append(lines_out, ReturnedLine(line_buf))
                                ELSE lines_out
          /\ wd_call' = [op |-> "check", w |-> "frame", data |-> byte, target |-> "Z",
                         arg |-> 0]
          /\ line_buf' = IF byte \in {"Z", ""} THEN line_buf ELSE Append(line_buf, byte)
          /\ start_char' = byte
          /\ unit_at' = IF byte = "" THEN unit_at ELSE wall'

\* set_measurement_interval, called while the node is configured, before the
\* first line is read
SetMeasurementInterval(timeout_value) ==
  /\ dec_pc = "idle"
  /\ lines_out = <<>>
  /\ watchdogs' = [w \in {"data", "frame"} |-> update_limit(watchdogs[w], timeout_value)]
  /\ wd_call' = [op |-> "update_limit", w |-> "frame", data |-> "", target |-> "",
                 arg |-> timeout_value]
  /\ UNCHANGED <<wall, wd_ret, decVars>>

\* the frames the device sends: "hello", the empty payload, and a payload
\* that holds the start marker
FramePayloads == {<<"h", "e", "l", "l", "o">>, <<>>, <<"h", "A">>}

\* the control unit that ends a payload
ControlUnits == {"\n", "h"}

\* what the device sends between two frames
GapUnits == {"Z", "h", "\n", "", NonAscii}

\* the device sends well-formed frames: in a gap anything but the start
\* marker, or the start marker of a frame; then the payload, a control unit
\* and the end marker; the line may fall silent at any point
DeviceEmits(unit) ==
  \/ /\ unit = ""
     /\ UNCHANGED devVars
  \/ /\ dev.pc = "gap"
     /\ unit \in GapUnits \ {""}
     /\ UNCHANGED devVars
  \/ /\ dev.pc = "gap"
     /\ unit = "A"
     /\ Len(sent_lines) < MaxFrames
     /\ \E p \in FramePayloads : dev' = [pc |-> "payload", payload |-> p, pos |-> 0]
     /\ UNCHANGED sent_lines
  \/ /\ dev.pc = "payload"
     /\ dev.pos < Len(dev.payload)
     /\ unit = dev.payload[dev.pos + 1]
     /\ dev' = [dev EXCEPT !.pos = dev.pos + 1]
     /\ UNCHANGED sent_lines
  \/ /\ dev.pc = "payload"
     /\ dev.pos = Len(dev.payload)
     /\ unit \in ControlUnits
     /\ dev' = [dev EXCEPT !.pc = "control"]
     /\ UNCHANGED sent_lines
  \/ /\ dev.pc = "control"
     /\ unit = "Z"
     /\ sent_lines' = Append(sent_lines, dev.payload)
     /\ dev' = DevGap

\* the frame of every step of the decoder
DecoderFrame ==
  UNCHANGED <<sensorVars, loopVars, clientVars, workerVars, stop_pc, service, apiVars>>

\* ------------------------------------------------------------------------
\* Specifications
\* ------------------------------------------------------------------------

\* classify_message called on its own, as the loop calls it
ClassifyStep(line) ==
  /\ \E c \in {classify_message(node_handle, line, mu_id, mu_mm, clock + 1)} :
        /\ clock' = clock + 1
        /\ mu_id' = c.mu_id
        /\ mu_mm' = c.mu_mm
        /\ last' = [line |-> line, header |-> c.header, payload |-> c.payload, raised |-> c.raised]
        /\ hdr_seen' = IF c.header # <<>> /\ c.header[2] = 0 THEN <<c.mu_id, c.mu_mm>> ELSE hdr_seen
  /\ UNCHANGED <<loopVars, clientVars, workerVars, stop_pc, service, apiVars, muVars>>

\* the lines the pipeline is run on
PipelineLines == {LineHeader, LineData, LineDataShort, LineDataMeta, LineDataBad}

\* the lines the classifier is run on
ClassifierLines ==
  PipelineLines \cup {LineDataExample, LineDataMetaSpaced, LineDataMetaNoId, LineHeaderBadTa,
                      LineHeaderNoTa, LineOneHash}

Worker == WorkerCheck \/ WorkerGet \/ (\E o \in PushOutcomes : WorkerPush(o))

Stop == StopCall \/ StopPut \/ StopJoin

\* the pipeline on any lines
Next ==
  \/ \E line \in PipelineLines, ok \in BOOLEAN : clock < MaxLines /\ LoopIteration(line, ok)
  \/ SendReturn
  \/ ClientStart
  \/ Worker
  \/ Stop

Spec == Init /\ [][Next]_vars

\* a call of publish on the notifier, as the loop makes it after a
\* TimeoutError of get_next
NotifyPublish(topic) ==
  /\ Notify(<<topic>>, wall)
  /\ UNCHANGED <<data_dict, csv_rows, loop_pc, send_result, notice, enqueued, handoff>>
  /\ UNCHANGED <<sensorVars, clientVars, workerVars, stop_pc, service, apiVars, muVars>>

\* the topics the notifier alone is called with
NotifierTopics == {"timeout_error", "csv_error"}

\* the notifier alone, called at any time on either topic
InitNotifier ==
  /\ node_handle = HostDev
  /\ service = "flaky"
  /\ service_nodes = {}
  /\ InitCommon
  /\ InitMu

NextNotifier ==
  \/ \E dt \in TimeSteps : TimePasses(dt)
  \/ \E topic \in NotifierTopics : NotifyPublish(topic)

SpecNotifier == InitNotifier /\ [][NextNotifier]_vars

\* a call of start() through __getattribute__: on an enabled client the thread
\* is started, on a disabled one the call is swallowed
StartCall ==
  /\ enabled => (stop_pc = "idle" /\ ~thread_started /\ worker_pc = "unstarted")
  /\ n_calls' = n_calls + 1
  /\ call' = [Swallowed("start", node_handle) EXCEPT !.ret = IF enabled THEN "started" ELSE "None"]
  /\ thread_started' = (enabled \/ thread_started)
  /\ worker_pc' = IF enabled THEN "check" ELSE worker_pc
  /\ UNCHANGED <<node_handle, enabled, queue, stop_event, success_tracker>>
  /\ UNCHANGED <<task, exit_reason, pushed, last_push, delivered>>
  /\ UNCHANGED <<known_nodes, known_data_fields, service_nodes>>
  /\ UNCHANGED <<sensorVars, loopVars, stop_pc, service, muVars>>

\* a client constructed for an "OB" hostname that website_mapping does not
\* hold, with every method called on it in any order
InitDisabled ==
  /\ node_handle = HostUnmapped
  /\ service = "flaky"
  /\ service_nodes \in SUBSET Handles
  /\ InitCommon
  /\ InitMu

\* what a request would meet, were the disabled client to issue one
DisabledNet == {"ok", "timeout"}

NextDisabled ==
  \/ \E net \in DisabledNet : n_calls < MaxCalls /\ GetNodesCall(net)
  \/ \E net \in DisabledNet : n_calls < MaxCalls /\ GetDataFieldsCall(net)
  \/ \E net \in DisabledNet : n_calls < MaxCalls /\ RegisterNodeCall(net, net, TRUE, "none")
  \/ \E k \in WindowTimestamps, net \in DisabledNet : n_calls < MaxCalls /\ AddDataCall(k, net)
  \/ n_calls < MaxCalls /\ StartCall
  \/ \E line \in PipelineLines, ok \in BOOLEAN : clock < MaxLines /\ LoopIteration(line, ok)
  \/ StopCall

SpecDisabled == InitDisabled /\ [][NextDisabled]_vars

\* the classifier alone on any lines
InitClassify ==
  /\ node_handle = HostDev
  /\ service = "flaky"
  /\ service_nodes = {}
  /\ InitCommon
  /\ InitMu

NextClassify == \E line \in ClassifierLines : clock < MaxClassify /\ ClassifyStep(line)

SpecClassify == InitClassify /\ [][NextClassify]_vars

\* the pipeline under load: the device sends data lines only, the service is
\* up for the whole run or down for the whole run
InitLoad ==
  /\ node_handle = HostDev
  /\ service \in {"up", "down"}
  /\ service_nodes = {}
  /\ InitCommon
  /\ InitMu

NextLoad ==
  \/ clock < MaxLoadLines /\ LoopIteration(LineData, TRUE)
  \/ SendReturn
  \/ ClientStart
  \/ Worker
  \/ Stop

SpecLoad == InitLoad /\ [][NextLoad]_vars

\* the client's methods called directly, on a service holding any nodes; the
\* client is as __init__ has it when it calls register_node (known_nodes and
\* known_data_fields None), that call being one of the RegisterNodeCall steps
InitClient ==
  /\ node_handle = HostDev
  /\ service = "flaky"
  /\ service_nodes \in SUBSET Handles
  /\ InitCommon
  /\ InitMu

NextClient ==
  \/ \E net \in ClientNet : n_calls < MaxCalls /\ GetNodesCall(net)
  \/ \E net \in ClientNet : n_calls < MaxCalls /\ GetDataFieldsCall(net)
  \/ \E h \in Handles, f \in BOOLEAN, net \in ClientNet :
       n_calls < MaxCalls /\ NodeExistsCall(h, f, net)
  \/ \E h \in Handles, ng \in ClientNet, np \in ClientNet, r \in BOOLEAN :
       n_calls < MaxCalls /\ AddNodeCall(h, ng, np, r)
  \/ \E ng \in ClientNet, np \in ClientNet, r \in BOOLEAN, d \in Deadlines :
       n_calls < MaxCalls /\ RegisterNodeCall(ng, np, r, d)
  \/ \E h \in Handles, net \in ClientNet, r \in BOOLEAN :
       n_calls < MaxCalls /\ DeleteNodeCall(h, net, r)
  \/ \E k \in Timestamps, net \in NetOutcomes : n_calls < MaxCalls /\ AddDataCall(k, net)

SpecClient == InitClient /\ [][NextClient]_vars

\* the end-to-end scenario: the device sends a Header with #id 7 and #ta 3 and
\* then three Data lines "X 100 200 300"; the service accepts every push
Scenario == <<LineHeader, LineData, LineData, LineData>>

InitE2E ==
  /\ node_handle = HostDev
  /\ service = "up"
  /\ service_nodes = {}
  /\ InitCommon
  /\ InitMu

NextE2E ==
  \/ \E ok \in BOOLEAN : clock < Len(Scenario) /\ LoopIteration(Scenario[clock + 1], ok)
  \/ SendReturn
  \/ ClientStart
  \/ Worker
  \/ Stop

SpecE2E == InitE2E /\ [][NextE2E]_vars

\* the outage scenario: the service lets every push time out until, after at
\* least TrackerLen pushes, it comes back and accepts every push
InitOutage ==
  /\ node_handle = HostDev
  /\ service = "down"
  /\ service_nodes = {}
  /\ InitCommon
  /\ InitMu

ServiceRecovers ==
  /\ service = "down"
  /\ Len(pushed) >= TrackerLen
  /\ service' = "up"
  /\ UNCHANGED <<sensorVars, loopVars, clientVars, workerVars, stop_pc, apiVars, muVars>>

NextOutage ==
  \/ clock < MaxOutageLines /\ LoopIteration(LineData, TRUE)
  \/ SendReturn
  \/ ClientStart
  \/ Worker
  \/ Stop
  \/ ServiceRecovers

SpecOutage == InitOutage /\ [][NextOutage]_vars

\* the success tracker alone: add_data called again and again, with any
\* timestamp and any outcome of the request
InitWindow ==
  /\ node_handle = HostDev
  /\ service = "flaky"
  /\ service_nodes = {}
  /\ InitCommon
  /\ InitMu

NextWindow ==
  \E k \in WindowTimestamps, net \in NetOutcomes : n_calls < MaxPushes /\ AddDataCall(k, net)

SpecWindow == InitWindow /\ [][NextWindow]_vars

\* one watchdog alone: constructed with any multiplier and interval, then any
\* calls of check and update_limit as time passes
InitWatchdog ==
  /\ node_handle = HostDev
  /\ service = "flaky"
  /\ service_nodes = {}
  /\ InitCommon
  /\ \E m \in Multipliers, tv \in BaseIntervals :
        watchdogs = [w \in {"data", "frame"} |-> WatchdogCounter(m, tv)]
  /\ InitDecoder

NextWatchdog ==
  \/ \E dt \in TimeSteps : TimePasses(dt)
  \/ \E data \in Units, target \in Patterns : WatchdogCheck("data", data, target)
  \/ \E tv \in BaseIntervals : UpdateLimit("data", tv)

SpecWatchdog == InitWatchdog /\ [][NextWatchdog]_vars

\* the frame watchdog of find_start at a measurement interval of 0.5 s:
\* checks of the units read, with the pattern of find_start, as time passes
InitEpisodes ==
  /\ node_handle = HostDev
  /\ service = "flaky"
  /\ service_nodes = {}
  /\ InitCommon
  /\ watchdogs = [w \in {"data", "frame"} |-> WatchdogCounter(3, 1)]
  /\ InitDecoder

NextEpisodes ==
  \/ \E dt \in TimeSteps : TimePasses(dt)
  \/ \E data \in {"A", "h", ""} : WatchdogCheck("frame", data, "A")

SpecEpisodes == InitEpisodes /\ [][NextEpisodes]_vars

\* the decoder alone, constructed
InitFrames ==
  /\ node_handle = HostDev
  /\ service = "flaky"
  /\ service_nodes = {}
  /\ InitCommon
  /\ InitMu

\* the decoder on a device that sends well-formed frames
NextFrames ==
  \/ GetNextCall /\ UNCHANGED devVars /\ DecoderFrame
  \/ \E byte \in Bytes \cup {"e", "l", "o"} :
       FindStartRead(byte) /\ DeviceEmits(byte) /\ DecoderFrame
  \/ \E byte \in Bytes \cup {"e", "l", "o"} :
       GetNextRead(byte) /\ DeviceEmits(byte) /\ DecoderFrame

SpecFrames == InitFrames /\ [][NextFrames]_vars

\* what a read inside a frame gives where the timing is looked at: a unit
\* of the payload, the end marker, nothing, an undecodable byte
InFrameBytes == {"h", "Z", "", NonAscii}

\* the decoder on any stream of units; the line is silent for the time the
\* reads time out
NextDecoder ==
  \/ GetNextCall /\ UNCHANGED devVars /\ DecoderFrame
  \/ \E byte \in Bytes : FindStartRead(byte) /\ UNCHANGED devVars /\ DecoderFrame
  \/ \E byte \in InFrameBytes :
       /\ byte \notin {"Z", "", NonAscii} => Len(line_buf) < MaxBuf
       /\ byte = "Z" => Len(lines_out) < MaxBuf
       /\ GetNextRead(byte) /\ UNCHANGED devVars /\ DecoderFrame
  \/ \E tv \in BaseIntervals : SetMeasurementInterval(tv) /\ UNCHANGED devVars /\ DecoderFrame

SpecDecoder == InitFrames /\ [][NextDecoder]_vars

\* ------------------------------------------------------------------------
\* Properties
\* ------------------------------------------------------------------------

\* the task of a measurement of the scenario: mode 3, id 7, values 100 200 300
ScenarioData == <<3, 7, 100, 200, 300>>

IsPrefix(s, t) == Len(s) <= Len(t) /\ \A i \in 1..Len(s) : s[i] = t[i]

\* C1: in the end-to-end scenario every measurement enqueued carries mode 3,
\* id 7 and the values 100 200 300; the measurements are enqueued in the order
\* of receipt, one per Data line (three once the loop has read the four lines
\* without a stop request); and the worker hands add_data the enqueued tasks in
\* the order of the queue, all three once it has drained the queue.
C1_EndToEnd ==
  /\ \A i \in 1..Len(enqueued) :
       enqueued[i] = [timestamp |-> i + 1, data |-> ScenarioData, none |-> FALSE]
  /\ (clock = Len(Scenario) /\ loop_pc = "read") => Len(enqueued) = 3
  /\ IsPrefix(pushed, enqueued)
  /\ (clock = Len(Scenario) /\ loop_pc = "read" /\ queue = <<>> /\ worker_pc = "get")
       => pushed = enqueued

\* C1 witness: the three measurements have been enqueued and pushed in order
C1_Witness ==
  /\ Len(enqueued) = 3
  /\ pushed = enqueued
  /\ pushed[3].data = ScenarioData

\* C2: shutdown always completes: stop() is never left at its put of the
\* sentinel on a full queue that nothing will drain any more (the worker has
\* left its loop), whatever the interleaving and the occupancy of the queue.
C2_ShutdownCompletes ==
  stop_pc = "put" => (StopPutReady(queue) \/ worker_pc # "exited")

\* C3: after every push that ended in a network timeout, a connection error
\* or the hard deadline, exactly one False was appended to success_tracker.
C3_FailureAppendsOneFalse ==
  last_push.outcome \in {"timeout", "conn_error", "deadline_in_post", "deadline_elsewhere"}
    => last_push.appended = <<FALSE>>

\* C4 as claimed: every call of send on an enabled client, whether the task
\* is accepted or rejected because the queue is full, gives the caller the
\* failure ratio count(False) / len(success_tracker).
C4_EverySendGivesRatio ==
  [][(send_result' # send_result /\ send_result'.kind \in {"ratio", "RuntimeError"})
       => /\ send_result'.kind = "ratio"
          /\ send_result'.failed = CountFalse(success_tracker')
          /\ send_result'.len = Len(success_tracker')]_vars

\* C4 as the code has it: a call of send on an enabled client is rejected
\* exactly when the queue holds QueueSize items; a rejected call raises
\* RuntimeError, gives no ratio and leaves the queue as it was; an accepted
\* call enqueues the task and returns count(False) / len(success_tracker) as
\* the tracker is when send returns.
C4_SendRatioOrError ==
  [][/\ (clock' # clock /\ enabled /\ IsStored(last'.header) /\ data_dict'.bound)
          => /\ (send_result'.kind = "RuntimeError") <=> (Len(queue) >= QueueSize)
             /\ (send_result'.kind = "RuntimeError") => (queue' = queue /\ enqueued' = enqueued)
             /\ (send_result'.kind # "RuntimeError")
                  => (Len(queue') = Len(queue) + 1 /\ loop_pc' = "ratio")
     /\ (loop_pc = "ratio" /\ loop_pc' = "read")
          => /\ send_result'.kind = "ratio"
             /\ send_result'.failed = CountFalse(success_tracker')
             /\ send_result'.len = Len(success_tracker')]_vars

\* C4 witness: send has been rejected on a full queue while the tracker holds
\* a failure, after accepted calls that returned a ratio
C4_Witness ==
  /\ send_result.kind = "RuntimeError"
  /\ Len(queue) = QueueSize
  /\ CountFalse(success_tracker) > 0
  /\ Len(enqueued) > QueueSize

\* the kind of the record last classified: 0 Header, 1 Data, 2 DataWithMeta,
\* -1 where the line gave no record
LastKind(l) == IF l.header = <<>> THEN -1 ELSE l.header[2]

C6_StickyOnlyByHeader ==
  [][/\ (mu_id' # mu_id \/ mu_mm' # mu_mm) => LastKind(last') = 0
     /\ (clock' # clock /\ LastKind(last') = 1)
          => (last'.payload[3] = hdr_seen'[1] /\ last'.payload[2] = hdr_seen'[2])]_vars

\* C7: every Data record and every DataWithMeta record the loop classifies
\* (with a value for every configured CSV column) is handed to the CSV writer
\* and offered to the delivery queue (send is called); a Header record is
\* handed to neither.
C7_RecordsStoredAndOffered ==
  /\ (LastKind(last) \in {1, 2} /\ CsvTransform(last.payload).ok)
       => (handoff.csv # "none" /\ handoff.cloud \in {"put", "full", "swallowed"})
  /\ LastKind(last) = 0 => (handoff.csv = "none" /\ handoff.cloud = "none")

\* the operations of the client that talk to the service for a caller
NetworkOps == {"get_nodes", "add_node", "register_node", "add_data", "get_data_fields"}

\* C8: no network failure of a listing, registration or push call escapes
\* the client as an exception: a call that met a timeout, a connection error
\* or a non-2xx response has not raised.
C8_NoNetworkFailureEscapes ==
  call.op \in NetworkOps => ~(call.raised /\ call.ret = "ConnectionError")

\* a create request issued by the last call
IssuedCreate(c) == \E i \in 1..Len(c.requests) : c.requests[i] = "POST nodes"

\* C9: registration is idempotent: a registration call issues a create
\* request only when the node is not on the service, so a registration that
\* follows a successful one issues none.
C9_CreateOnlyWhenAbsent ==
  [][(n_calls' # n_calls /\ call'.op \in {"register_node", "add_node"} /\ IssuedCreate(call'))
       => call'.handle \notin service_nodes]_vars

\* C10: the worker thread leaves its loop only on the stop flag or on the
\* sentinel: whatever a push ended with (success, http error, timeout,
\* connection error, unexpected exception, hard deadline), the thread is
\* back at its loop condition afterwards.
C10_WorkerSurvivesPush ==
  /\ worker_pc = "exited" => exit_reason \in {"flag", "sentinel"}
  /\ exit_reason = "flag" => stop_event
  /\ exit_reason \in {"none", "flag", "sentinel"}

\* C10 witness: pushes have failed, the last with an unexpected exception or
\* past the deadline, and the worker has gone on to dequeue the next task
C10_Witness ==
  /\ last_push.outcome \in {"unexpected", "deadline_elsewhere", "deadline_in_post"}
  /\ Len(pushed) >= 2
  /\ worker_pc = "push"

\* C11: while every push times out, a send that returns after 10 pushes
\* reports the ratio 10/10; the worker is then still in its loop (it leaves
\* only on the stop flag or the sentinel), and a push the recovered service
\* accepts is carried out and appended to the tracker as a success.
C11_OutageThenRecovery ==
  [][/\ (loop_pc = "ratio" /\ loop_pc' = "read" /\ service = "down" /\ Len(pushed) >= 10)
          => (send_result'.kind = "ratio" /\ send_result'.failed = 10 /\ send_result'.len = 10)
     /\ (Len(pushed') = Len(pushed) + 1 /\ service = "down")
          => (last_push'.outcome = "timeout" /\ success_tracker'[Len(success_tracker')] = FALSE)
     /\ (Len(pushed') = Len(pushed) + 1 /\ service = "up")
          => /\ last_push'.outcome = "ok"
             /\ success_tracker' = Tail(success_tracker) \o <<TRUE>>
             /\ worker_pc' = "check"
     /\ worker_pc' = "exited" => exit_reason' \in {"flag", "sentinel"}]_vars

\* C11 witness: ten pushes timed out, the eleventh send reported 10/10 and
\* the eleventh push succeeded and is in the tracker as a success
C11_Witness ==
  /\ Len(pushed) = 11
  /\ send_result = [kind |-> "ratio", failed |-> 10, len |-> 10]
  /\ last_push.outcome = "ok"
  /\ success_tracker = [i \in 1..10 |-> i = 10]
  /\ worker_pc \in {"check", "get"}

\* the tasks of a queue, the sentinel left out
QueuedTasks(q) == SelectSeq(q, LAMBDA t : ~t.none)

\* C12: the worker leaves its loop at the loop check that sees the stop flag
\* set and at the dequeue of the sentinel, without a push in that step; once
\* it has left, add_data is called for no further task and nothing is taken
\* from the queue, so the tasks still queued are never pushed.
C12_NoPushAfterStopObserved ==
  [][/\ (worker_pc = "check" /\ stop_event /\ worker_pc' # "check") => worker_pc' = "exited"
     /\ (worker_pc = "get" /\ queue # <<>> /\ Head(queue).none /\ worker_pc' # "get")
          => worker_pc' = "exited"
     /\ (worker_pc # "exited" /\ worker_pc' = "exited")
          => (pushed' = pushed /\ success_tracker' = success_tracker)
     /\ worker_pc = "exited"
          => /\ worker_pc' = "exited"
             /\ pushed' = pushed
             /\ success_tracker' = success_tracker
             /\ QueuedTasks(queue') = QueuedTasks(queue)
             /\ pushed \o QueuedTasks(queue) = enqueued]_vars

\* C12 witness: the worker has left its loop on the flag, after a push, with
\* tasks still in the queue
C12_Witness ==
  /\ worker_pc = "exited"
  /\ exit_reason = "flag"
  /\ Len(pushed) >= 1
  /\ Len(QueuedTasks(queue)) >= 2
  /\ stop_pc = "done"

\* the task the worker has dequeued and not yet handed to add_data
InFlight == IF worker_pc = "push" THEN <<task>> ELSE <<>>

\* whether s is t with some of its elements left out
RECURSIVE IsSubsequence(_, _)
IsSubsequence(s, t) ==
  IF s = <<>> THEN TRUE
  ELSE IF t = <<>> THEN FALSE
  ELSE IF Head(s) = Head(t) THEN IsSubsequence(Tail(s), Tail(t))
  ELSE IsSubsequence(s, Tail(t))

\* C13: the tasks handed to add_data, the task in the worker's hands and the
\* tasks in the queue are, in this order, exactly the tasks enqueued: tasks are
\* attempted in the order of enqueue, each once. A push, whatever its outcome,
\* hands the task to add_data once, puts nothing back in the queue and leaves
\* the worker at its loop check with no task. The tasks delivered are the
\* enqueued tasks with some left out, in the same order.
C13_FifoOnceNoRetry ==
  [][/\ pushed' \o InFlight' \o QueuedTasks(queue') = enqueued'
     /\ worker_pc = "push" /\ worker_pc' # "push"
          => /\ pushed' = Append(pushed, task)
             /\ queue' = queue
             /\ worker_pc' = "check"
             /\ task' = NoTask
     /\ worker_pc = "push" => worker_pc' # "push" \/ UNCHANGED <<pushed, task>>
     /\ IsSubsequence(delivered', pushed')
     /\ IsSubsequence(delivered', enqueued')]_vars

\* C13 witness: three tasks were attempted in the order of enqueue; the
\* second push failed, the first and the third were delivered
C13_Witness ==
  /\ Len(pushed) = 3
  /\ pushed = enqueued
  /\ delivered = <<enqueued[1], enqueued[3]>>
  /\ last_push.outcome = "ok"

\* C14: with QueueSize tasks in the queue the send of an iteration of the
\* loop does not wait for the worker: it fails within the iteration with
\* RuntimeError, with no step of the worker or of stop in between, the queue
\* and its history as they were and the loop back at reading the next line.
C14_EnqueueNeverBlocks ==
  [][(clock' # clock /\ enabled /\ Len(queue) >= QueueSize
           /\ IsStored(last'.header) /\ data_dict'.bound)
          => /\ handoff'.cloud = "full"
             /\ send_result'.kind = "RuntimeError"
             /\ queue' = queue
             /\ enqueued' = enqueued
             /\ loop_pc' = "read"
             /\ UNCHANGED <<workerVars, stop_pc>>]_vars

\* C14 witness: an eleventh send has failed on a queue of ten tasks that the
\* worker has not started to consume
C14_Witness ==
  /\ handoff.cloud = "full"
  /\ send_result.kind = "RuntimeError"
  /\ Len(queue) = QueueSize
  /\ Len(enqueued) = QueueSize
  /\ pushed = <<>>
  /\ worker_pc \in {"check", "get"}
  /\ clock = QueueSize + 1
  /\ loop_pc = "read"

\* C15: an iteration whose send fails on a full queue has published its
\* record on ZMQ and written its CSV row, catches the RuntimeError (the loop
\* is back at reading the next line, with the website_error notification
\* handed over) and leaves queue and enqueue history as they were; a task
\* enters the queue only in the iteration of its own record, so the record
\* dropped is never delivered, and later records are processed as usual.
C15_FullQueueDropsRemoteOnly ==
  [][/\ (clock' # clock /\ handoff'.cloud = "full")
          => /\ handoff'.pub
             /\ handoff'.csv = "written"
             /\ csv_rows' = Append(csv_rows, <<clock'>> \o CsvTransform(last'.payload).data)
             /\ queue' = queue
             /\ enqueued' = enqueued
             /\ send_result'.kind = "RuntimeError"
             /\ notice' = "website_error"
             /\ loop_pc' = "read"
     /\ enqueued' # enqueued
          => /\ clock' = clock + 1
             /\ enqueued' = Append(enqueued, [timestamp |-> clock', data |-> data_dict'.vals,
                                              none |-> FALSE])
     /\ loop_pc' \in {"read", "ratio"}]_vars

\* C15 witness: the record of line 11 was dropped on a full queue and is in
\* the CSV file; the record of line 12 was read after it and enqueued
C15_Witness ==
  /\ clock = 12
  /\ Len(csv_rows) = 12
  /\ csv_rows[11][1] = 11
  /\ Len(enqueued) = 11
  /\ enqueued[10].timestamp = 10
  /\ enqueued[11].timestamp = 12

\* ten outcomes alternating success and failure, beginning with either
Alternating(first) == [i \in 1..TrackerLen |-> IF i % 2 = 1 THEN first ELSE ~first]

\* C16: every add_data call that returns slides the tracker by one outcome:
\* the oldest leaves, the new one is the last, ten remain; so the tracker
\* holds the ten most recent outcomes and the ratio of send counts the
\* failures among them over 10. With ten alternating outcomes it is 5/10.
C16_WindowOfLatestTen ==
  [][/\ (n_calls' # n_calls /\ call'.op = "add_data" /\ ~call'.raised)
          => /\ success_tracker' = Tail(success_tracker) \o <<call'.ret = "True">>
             /\ SendRatio(success_tracker').len = 10
             /\ SendRatio(success_tracker').failed =
                  Cardinality({i \in 2..10 : ~success_tracker[i]})
                    + (IF call'.ret = "True" THEN 0 ELSE 1)
     /\ (success_tracker' \in {Alternating(TRUE), Alternating(FALSE)})
          => (SendRatio(success_tracker').failed = 5 /\ SendRatio(success_tracker').len = 10)
     /\ Len(success_tracker') = 10]_vars

\* C16 witness: after ten alternating pushes an eleventh has pushed the oldest
\* outcome out: the tracker alternates beginning with a failure
C16_Witness ==
  /\ n_calls = 11
  /\ call.op = "add_data" /\ call.ret = "True"
  /\ success_tracker = Alternating(FALSE)

\* the tokens of a data segment after the first, where all of them are integers
DataTokens(text) == Tail(Split(text, <<" ">>))

WellFormedData(text) == \A i \in 1..Len(DataTokens(text)) : IsInt(DataTokens(text)[i])

\* the measurement values of a record: the payload after hostname, mode, id
\* and timestamp
Values(payload) == SubSeq(payload, 5, Len(payload))

\* C17: a line with no '#' whose tokens after the first are integers is
\* classified as a Data record; its values are those integers in order
\* ("X 1 2 3" gives 1, 2, 3); it carries the sticky id and mode of that moment,
\* which are 0 and 0 as long as no Header record has been classified.
C17_DataRecord ==
  [][(clock' # clock /\ Count(last'.line, "#") = 0 /\ WellFormedData(last'.line))
        => /\ LastKind(last') = 1
           /\ Values(last'.payload)
                = [i \in 1..Len(DataTokens(last'.line)) |-> IntOf(DataTokens(last'.line)[i])]
           /\ last'.line = LineDataExample => Values(last'.payload) = <<1, 2, 3>>
           /\ last'.payload[3] = mu_id /\ last'.payload[2] = mu_mm
           /\ hdr_seen = <<0, 0>> => (last'.payload[3] = 0 /\ last'.payload[2] = 0)]_vars

\* the three segments of a line "data #id N #ta M", each as its tokens
MetaSegments(text) == [k \in 1..3 |-> SplitWS(Split(text, <<"#">>)[k])]

\* a line with exactly two '#' of the form "data #id N #ta M": an echo token
\* and integers, then id and an integer, then ta and an integer
MetaForm(text) ==
  /\ Count(text, "#") = 2
  /\ LET seg == MetaSegments(text)
     IN /\ Len(seg[1]) >= 1 /\ \A i \in 2..Len(seg[1]) : IsInt(seg[1][i])
        /\ Len(seg[2]) = 2 /\ seg[2][1] = <<"i", "d">> /\ IsInt(seg[2][2])
        /\ Len(seg[3]) = 2 /\ seg[3][1] = <<"t", "a">> /\ IsInt(seg[3][2])

\* C18: a line of the form "data #id N #ta M" is classified as a DataWithMeta
\* record that carries id N, mode M and the integers of the data segment.
C18_DataWithMetaRecord ==
  [][(clock' # clock /\ MetaForm(last'.line))
        => LET seg == MetaSegments(last'.line)
           IN /\ LastKind(last') = 2
              /\ last'.payload[3] = IntOf(seg[2][2])
              /\ last'.payload[2] = IntOf(seg[3][2])
              /\ Values(last'.payload) = [i \in 1..(Len(seg[1]) - 1) |-> IntOf(seg[1][i + 1])]]_vars

\* the sub-lines of a block that begin with the given key, as their tokens
SubLines(text, key) ==
  LET subs == Split(text, <<"\r", "\n">>)
      tokens == [i \in 1..Len(subs) |-> SplitWS(subs[i])]
  IN SelectSeq(tokens, LAMBDA l : l # <<>> /\ l[1] = key)

\* a block with exactly four '#', each sub-line a key and a value, with one
\* #id sub-line and one #ta sub-line that hold integers
HeaderForm(text) ==
  /\ Count(text, "#") = 4
  /\ LET lines == HeaderLines(text)
         ids == SubLines(text, <<"#", "i", "d">>)
         tas == SubLines(text, <<"#", "t", "a">>)
     IN /\ \A i \in 1..Len(lines) : Len(lines[i]) >= 2
        /\ Len(ids) = 1 /\ IsInt(ids[1][2])
        /\ Len(tas) = 1 /\ IsInt(tas[1][2])

\* C19: the loop classifies such a block as a Header record whose payload is
\* the block itself; the sticky id and mode become the values of its #id and
\* #ta sub-lines (7 and 3 for "#id 7 / #ta 3 / #mi 1 / #fw 2"); the record is
\* published, and neither a CSV row nor a delivery task is made for it.
C19_HeaderRecord ==
  [][(clock' # clock /\ HeaderForm(last'.line))
        => /\ LastKind(last') = 0
           /\ last'.payload = last'.line
           /\ mu_id' = IntOf(SubLines(last'.line, <<"#", "i", "d">>)[1][2])
           /\ mu_mm' = IntOf(SubLines(last'.line, <<"#", "t", "a">>)[1][2])
           /\ last'.line = LineHeader => (mu_id' = 7 /\ mu_mm' = 3)
           /\ handoff' = [pub |-> TRUE, csv |-> "none", cloud |-> "none"]
           /\ csv_rows' = csv_rows /\ data_dict' = data_dict
           /\ queue' = queue /\ enqueued' = enqueued
           /\ loop_pc' = "read"]_vars

\* C19 witness: a Header arrives after a Data record has been stored and
\* queued under the default id and mode
C19_Witness ==
  /\ last.line = LineHeader /\ LastKind(last) = 0
  /\ mu_id = 7 /\ mu_mm = 3
  /\ Len(csv_rows) = 1 /\ Len(enqueued) = 1
  /\ clock = 2

\* (None, []) was returned for the line last classified
Rejected(l) == l.header = <<>> /\ l.payload = <<>>

\* a segment "id N" or "ta M" without its integer
MetaMissing(tokens) == Len(tokens) < 2 \/ ~IsInt(tokens[2])

\* a line that is to be rejected: a '#' count other than 0, 2 and 4, a data
\* token that is no integer, or a missing #id or #ta
Malformed(text) ==
  CASE Count(text, "#") = 0 -> ~WellFormedData(text)
    [] Count(text, "#") = 2 ->
         \/ ~WellFormedData(Split(text, <<"#">>)[1])
         \/ MetaMissing(MetaSegments(text)[2])
         \/ MetaMissing(MetaSegments(text)[3])
    [] Count(text, "#") = 4 ->
         \/ SubLines(text, <<"#", "i", "d">>) = <<>>
         \/ SubLines(text, <<"#", "t", "a">>) = <<>>
         \/ \E i \in 1..Len(HeaderLines(text)) : Len(HeaderLines(text)[i]) < 2
    [] OTHER -> TRUE

\* C20: no call of classify_message raises; a malformed line yields no record;
\* and the line after a rejected one is classified by its own form: a Data
\* line gives a Data record with its values, a DataWithMeta line whose data
\* segment ends at the first '#' a DataWithMeta record, a header block a Header.
C20_NeverRaises ==
  [][clock' # clock
        => /\ ~last'.raised
           /\ Malformed(last'.line) => Rejected(last')
           /\ (clock >= 1 /\ Rejected(last))
                => /\ (Count(last'.line, "#") = 0 /\ WellFormedData(last'.line))
                        => (LastKind(last') = 1
                            /\ Values(last'.payload)
                                 = [i \in 1..Len(DataTokens(last'.line)) |->
                                      IntOf(DataTokens(last'.line)[i])])
                   /\ (MetaForm(last'.line) /\ WellFormedData(Split(last'.line, <<"#">>)[1]))
                        => (LastKind(last') = 2
                            /\ last'.payload[3] = IntOf(MetaSegments(last'.line)[2][2])
                            /\ last'.payload[2] = IntOf(MetaSegments(last'.line)[3][2]))
                   /\ HeaderForm(last'.line)
                        => (LastKind(last') = 0 /\ last'.payload = last'.line)]_vars

\* C20 witness: the first line was a header block without #ta and was rejected
\* (the sticky id is 9 and no Header has been classified), the second line
\* "X 1 2 3" is a Data record
C20_Witness ==
  /\ clock = 2
  /\ mu_id = 9 /\ hdr_seen = <<0, 0>>
  /\ ~last.raised
  /\ last.line = LineDataExample /\ LastKind(last) = 1
  /\ Values(last.payload) = <<1, 2, 3>>

\* the multiplier in force: at least 5 for an interval below 1.5 s
EffectiveMultiplier(wd) ==
  IF wd.timeout_value < ShortInterval /\ wd.timeout_multiplier < 5 THEN 5
  ELSE wd.timeout_multiplier

\* C24: in every state of a watchdog, after construction and after any calls
\* of check and update_limit, limit = effective multiplier * base interval.
C24_LimitIsMultiple ==
  \A w \in {"data", "frame"} :
    watchdogs[w].limit = EffectiveMultiplier(watchdogs[w]) * watchdogs[w].timeout_value

\* C24 witness: a watchdog of multiplier 3 is in an overrun when update_limit
\* sets the interval to 1 s: the limit is 5 s
C24_Witness ==
  /\ wd_call.op = "update_limit" /\ wd_call.arg = 2
  /\ watchdogs["data"].timeout_multiplier = 3
  /\ watchdogs["data"].limit = 10
  /\ ~wd_ret["data"].ok

\* the step is a call of check on watchdog w
IsCheck(w) == wall' = wall /\ wd_call'.op = "check" /\ wd_call'.w = w

\* C25: a check reports only when the integer part of the relative delay
\* differs from the integer last reported, and then records it; a check whose
\* integer part equals the integer last reported does not report; and of two
\* successive checks of one overrun that both report, the second has the
\* larger integer part.
C25_ReportsRateLimited ==
  [][\A w \in {"data", "frame"} :
       (IsCheck(w) /\ <<watchdogs[w], wd_ret[w], wd_call>>' # <<watchdogs[w], wd_ret[w], wd_call>>)
         => /\ wd_ret'[w].do_report
                 => /\ ~wd_ret'[w].ok
                    /\ IntPart(wd_ret'[w].relative_delay) # watchdogs[w].last_report
                    /\ watchdogs'[w].last_report = IntPart(wd_ret'[w].relative_delay)
            /\ ~wd_ret'[w].do_report => watchdogs'[w].last_report = watchdogs[w].last_report
            /\ IntPart(wd_ret'[w].relative_delay) = watchdogs[w].last_report
                 => ~wd_ret'[w].do_report
            /\ (wd_call.op = "check" /\ wd_ret[w].do_report /\ wd_ret'[w].do_report
                  /\ watchdogs'[w].last_valid = watchdogs[w].last_valid)
                 => IntPart(wd_ret'[w].relative_delay) > IntPart(wd_ret[w].relative_delay)]_vars

\* C25 witness: an overrun reported at 5 intervals is checked again within the
\* same interval and is not reported again
C25_Witness ==
  /\ wd_call.op = "check"
  /\ ~wd_ret["data"].ok /\ ~wd_ret["data"].do_report
  /\ IntPart(wd_ret["data"].relative_delay) = 5
  /\ watchdogs["data"].last_report = 5

\* C26: after a check, lastMatchAt is now if it was unset or the symbol
\* matches the pattern, and is unchanged otherwise; the check returns
\* withinLimit = (now - lastMatchAt < limit); so the first check of a fresh
\* watchdog and every check with a matching symbol return withinLimit = true
\* and shouldReport = false (the limit being positive).
C26_WithinLimit ==
  [][\A w \in {"data", "frame"} :
       (IsCheck(w) /\ <<watchdogs[w], wd_ret[w], wd_call>>' # <<watchdogs[w], wd_ret[w], wd_call>>)
         => LET fresh == watchdogs[w].last_valid = Unset
                matched == Matches(wd_call'.target, wd_call'.data)
            IN /\ watchdogs'[w].last_valid
                    = IF fresh \/ matched THEN wall ELSE watchdogs[w].last_valid
               /\ wd_ret'[w].ok = (wall - watchdogs'[w].last_valid < watchdogs[w].limit)
               /\ watchdogs[w].limit > 0
               /\ (fresh \/ matched) => (wd_ret'[w].ok /\ ~wd_ret'[w].do_report)]_vars

\* C26 witness: a watchdog in an overrun is checked with a matching symbol and
\* is within its limit again
C26_Witness ==
  /\ wd_call.op = "check" /\ wd_call.data = "A" /\ wd_call.target = "A"
  /\ wd_ret["data"].ok /\ ~wd_ret["data"].do_report
  /\ watchdogs["data"].last_valid = wall
  /\ watchdogs["data"].last_report = 5

\* C27: a call of update_limit sets the base interval to its argument and
\* recomputes the limit; lastMatchAt, the integer last reported and the
\* multiplier of that watchdog stay as they were, and so does the other
\* watchdog, whether or not the watchdog is in an overrun.
C27_UpdateLimitFrame ==
  [][(wall' = wall /\ wd_call'.op = "update_limit")
        => LET w == wd_call'.w
           IN /\ watchdogs'[w].timeout_value = wd_call'.arg
              /\ watchdogs'[w].last_valid = watchdogs[w].last_valid
              /\ watchdogs'[w].last_report = watchdogs[w].last_report
              /\ watchdogs'[w].timeout_multiplier = watchdogs[w].timeout_multiplier
              /\ \A v \in {"data", "frame"} \ {w} : watchdogs'[v] = watchdogs[v]
              /\ wd_ret' = wd_ret]_vars

\* C27 witness: update_limit is called in an overrun that was reported at 5
\* intervals of 1 s; the interval is now 2 s and the last match and the last
\* report are still there
C27_Witness ==
  /\ wd_call.op = "update_limit" /\ wd_call.arg = 4
  /\ ~wd_ret["data"].ok /\ wd_ret["data"].do_report
  /\ watchdogs["data"].last_report = 5
  /\ watchdogs["data"].last_valid # Unset
  /\ wall - watchdogs["data"].last_valid >= 10

\* C21: on a stream of well-formed frames, with any bytes but the start
\* marker between them and with the line silent at any point, no call of
\* get_next fails, and the lines get_next has returned are the payloads of the
\* frames the device has completed, one per frame and in order; the frame of
\* "hello" gives the one line "hello"; get_next returns exactly when a frame
\* is complete.
C21_FrameRoundTrip ==
  /\ dec_pc \in {"idle", "seeking", "inframe"}
  /\ lines_out = sent_lines
  /\ dec_pc = "idle" => dev.pc = "gap"
  /\ (dev.pc = "gap" /\ sent_lines # <<>>) => dec_pc \in {"idle", "seeking"}
  /\ sent_lines = << <<"h", "e", "l", "l", "o">> >> => lines_out = << <<"h", "e", "l", "l", "o">> >>

\* the decoder is inside a call of get_next, reading
Reading(pc) == pc \in {"seeking", "inframe"}

\* C22: silence and missing markers never end a call of get_next: a read
\* after which a watchdog is past its limit leaves the decoder reading (or
\* returning a line), and a call ends by an exception only in a step that
\* checks no watchdog (the byte read could not be decoded); get_next returns
\* only from InFrame on reading the end marker, by emitting one line, and
\* InFrame is entered only from Seeking on reading the start marker.
C22_DelayNeverFails ==
  [][/\ (Reading(dec_pc) /\ (~wd_ret'["data"].ok \/ ~wd_ret'["frame"].ok) /\ wdVars' # wdVars)
          => dec_pc' \in {"seeking", "inframe", "idle"}
     /\ (dec_pc' = "raised" /\ dec_pc # "raised") => wdVars' = wdVars
     /\ (dec_pc' = "idle" /\ dec_pc # "idle")
          => /\ dec_pc = "inframe"
             /\ wd_call'.data = "Z"
             /\ Len(lines_out') = Len(lines_out) + 1
     /\ lines_out' # lines_out => (dec_pc = "inframe" /\ dec_pc' = "idle")
     /\ (dec_pc' = "inframe" /\ dec_pc # "inframe")
          => (dec_pc = "seeking" /\ wd_call'.data = "A")]_vars

\* C22 witness: both watchdogs have reported an overrun of five intervals
\* while get_next was waiting for the start marker, and the call has gone on
\* to return a line
C22_Witness ==
  /\ dec_pc = "idle"
  /\ Len(lines_out) = 1
  /\ watchdogs["data"].last_report >= 5
  /\ watchdogs["frame"].last_report >= 5

\* C23: a read that times out gives the empty unit, which matches none of
\* the patterns; in such a step the watchdogs of the loop are checked with it
\* (the frame watchdog returns whether the time since its last match, the
\* timeout included, is below its limit), lastMatchAt of a seeded watchdog
\* stays as it was, and the decoder stays in Seeking or InFrame with the line
\* buffer and the lines returned unchanged.
C23_TimeoutReadIsNoMatch ==
  [][/\ \A target \in Patterns : ~Matches(target, "")
     /\ (Reading(dec_pc) /\ wall' # wall)
          => /\ wall' = wall + ReadTimeout
             /\ wd_call'.op = "check" /\ wd_call'.data = "" /\ wd_call'.w = "frame"
             /\ \A w \in {"data", "frame"} :
                  watchdogs[w].last_valid # Unset
                    => watchdogs'[w].last_valid = watchdogs[w].last_valid
             /\ watchdogs["frame"].last_valid # Unset
                  => wd_ret'["frame"].ok
                       = (wall' - watchdogs["frame"].last_valid < watchdogs["frame"].limit)
             /\ (dec_pc = "seeking" /\ watchdogs["data"].last_valid # Unset)
                  => wd_ret'["data"].ok
                       = (wall' - watchdogs["data"].last_valid < watchdogs["data"].limit)
             /\ dec_pc' = dec_pc
             /\ line_buf' = line_buf
             /\ lines_out' = lines_out]_vars

\* C23 witness: inside a frame, with a unit in the buffer, reads have timed
\* out until the frame watchdog is past its limit; the buffer is as it was
C23_Witness ==
  /\ dec_pc = "inframe"
  /\ line_buf = <<"h">>
  /\ wd_call.data = ""
  /\ ~wd_ret["frame"].ok
  /\ watchdogs["frame"].last_valid # Unset
  /\ wall - watchdogs["frame"].last_valid >= 9

\* a text of the form YYYY-MM-DD HH:MM:SS
InFormat(text) ==
  /\ Len(text) = 19
  /\ \A i \in {1, 2, 3, 4, 6, 7, 9, 10, 12, 13, 15, 16, 18, 19} : text[i] \in Digits
  /\ text[5] = "-" /\ text[8] = "-" /\ text[11] = " " /\ text[14] = ":" /\ text[17] = ":"

\* the number a text of that form has at positions i and i + 1
TwoAt(text, i) == 10 * DigitVal[text[i]] + DigitVal[text[i + 1]]

\* the days of the months of a year before a month
RECURSIVE DaysBeforeMonth(_, _)
DaysBeforeMonth(year, month) ==
  IF month = 1 THEN 0 ELSE DaysBeforeMonth(year, month - 1) + DaysInMonth(year, month - 1)

\* the hours from the start of year 1 to an hour of a day
HoursSinceEpoch(year, month, day, hour) ==
  24 * (365 * (year - 1) + ((year - 1) \div 4) - ((year - 1) \div 100) + ((year - 1) \div 400)
        + DaysBeforeMonth(year, month) + day - 1) + hour

\* a text of that form names the instant of a datetime, read as UTC
IsUtcRendering(text, dt) ==
  /\ InFormat(text)
  /\ TwoAt(text, 6) \in 1..12
  /\ TwoAt(text, 9) \in 1..DaysInMonth(100 * TwoAt(text, 1) + TwoAt(text, 3), TwoAt(text, 6))
  /\ TwoAt(text, 12) \in 0..23
  /\ HoursSinceEpoch(100 * TwoAt(text, 1) + TwoAt(text, 3), TwoAt(text, 6), TwoAt(text, 9),
                     TwoAt(text, 12))
       = HoursSinceEpoch(dt.year, dt.month, dt.day, dt.hour) - dt.utcoffset
  /\ TwoAt(text, 15) = dt.minute
  /\ TwoAt(text, 18) = dt.second

\* C28: add_data on an enabled client validates the timestamp before any
\* request: with a timestamp that is neither a datetime nor a string of the
\* form YYYY-MM-DD HH:MM:SS it returns False and issues no request; a string
\* that is sent is sent as it was given; a datetime is sent as the text of
\* that form that names its instant in UTC.
C28_TimestampValidatedFirst ==
  (call.op = "add_data" /\ enabled)
    => /\ (/\ call.timestamp.type # "datetime"
           /\ ~(call.timestamp.type = "str" /\ InFormat(call.timestamp.text)))
            => (call.ret = "False" /\ call.requests = <<>>)
       /\ (call.timestamp.type = "str" /\ call.requests # <<>>)
            => call.date = call.timestamp.text
       /\ call.timestamp.type = "datetime"
            => /\ call.requests = <<"POST sensordata">>
               /\ IsUtcRendering(call.date, call.timestamp)

\* C29: on an enabled client, with the node list cached a listing
\* (get_nodes) or an existence check (node_exists) without force_refresh
\* issues no request and leaves the cache as it is, with the data-field list
\* cached a listing (get_data_fields) issues no request; a fetch that fails
\* leaves the cached list unchanged, and a fetch that succeeds caches the
\* handles the service holds.
C29_ListsCached ==
  [][(enabled /\ n_calls' # n_calls)
       => /\ (/\ call'.op \in {"get_nodes", "node_exists"}
              /\ known_nodes.fetched
              /\ ~call'.force_refresh)
               => (call'.requests = <<>> /\ known_nodes' = known_nodes)
          /\ (call'.op = "get_data_fields" /\ known_data_fields.fetched)
               => (call'.requests = <<>> /\ known_data_fields' = known_data_fields)
          /\ (call'.op \in {"get_nodes", "get_data_fields"} /\ call'.ret # "data")
               => (known_nodes' = known_nodes /\ known_data_fields' = known_data_fields)
          /\ (call'.op = "get_nodes" /\ call'.ret = "data")
               => known_nodes' = [fetched |-> TRUE, handles |-> service_nodes]
          /\ (call'.op = "get_data_fields" /\ call'.ret = "data")
               => known_data_fields' = [fetched |-> TRUE, handles |-> ServiceFields]
          /\ call'.op = "node_exists"
               => \/ known_nodes' = known_nodes
                  \/ /\ call'.requests = <<"GET nodes">>
                     /\ known_nodes' = [fetched |-> TRUE, handles |-> service_nodes]]_vars

\* C30: when send returns after an accepted enqueue, the loop publishes by
\* the ratio returned alone: nothing when it is at most 0.49, a "[Warning]"
\* notification when it is above 0.49 and at most 0.89, an "[Error]"
\* notification when it is above 0.89; and no other step publishes either.
C30_EscalatesByRatio ==
  [][/\ (loop_pc = "ratio" /\ loop_pc' = "read")
          => /\ send_result'.kind = "ratio"
             /\ 100 * send_result'.failed <= 49 * send_result'.len
                  => notice' = notice
             /\ (/\ 100 * send_result'.failed > 49 * send_result'.len
                 /\ 100 * send_result'.failed <= 89 * send_result'.len)
                  => notice' = "[Warning]-website"
             /\ 100 * send_result'.failed > 89 * send_result'.len
                  => notice' = "[Error]-website"
     /\ (notice' # notice /\ notice' \in {"[Warning]-website", "[Error]-website"})
          => (loop_pc = "ratio" /\ loop_pc' = "read")]_vars

\* C30 witness: the ratio returned was 9/10 and the loop published an error
C30_Witness ==
  /\ loop_pc = "read"
  /\ send_result.kind = "ratio"
  /\ send_result.failed = 9
  /\ send_result.len = 10
  /\ notice = "[Error]-website"

\* C31: a check that returns withinLimit = false directly after a check of
\* the same watchdog that matched (the first check of an overrun episode)
\* returns shouldReport = true, whatever was reported before.
C31_EveryEpisodeReported ==
  [][\A w \in {"data", "frame"} :
       (/\ IsCheck(w)
        /\ wd_call.op = "check" /\ wd_call.w = w
        /\ Matches(wd_call.target, wd_call.data)
        /\ wd_ret[w].ok
        /\ watchdogs[w].last_valid # Unset
        /\ ~Matches(wd_call'.target, wd_call'.data)
        /\ ~wd_ret'[w].ok)
         => wd_ret'[w].do_report]_vars

\* C32: every call of get_next starts in Seeking with an empty buffer; in
\* Seeking every unit is dropped and the first 'A' alone leads to InFrame; in
\* InFrame every unit but 'Z' is appended to the buffer, 'A' included, and the
\* call stays InFrame; 'Z' ends the call, which returns the buffer without its
\* last unit. No returned line holds 'Z', and none is longer than what was
\* read after the opening 'A'.
C32_SeekThenCollect ==
  [][/\ (dec_pc = "idle" /\ dec_pc' # "idle")
          => (dec_pc' = "seeking" /\ line_buf' = <<>> /\ lines_out' = lines_out)
     /\ (dec_pc = "seeking" /\ dec_pc' # "raised")
          => /\ line_buf' = <<>> /\ lines_out' = lines_out
             /\ dec_pc' = IF wd_call'.data = "A" THEN "inframe" ELSE "seeking"
     /\ (dec_pc = "inframe" /\ dec_pc' # "raised")
          => IF wd_call'.data = "Z"
             THEN /\ dec_pc' = "idle"
                  /\ Len(lines_out') = Len(lines_out) + 1
                  /\ \A i \in 1..Len(lines_out) : lines_out'[i] = lines_out[i]
                  /\ LET line == lines_out'[Len(lines_out')]
                     IN /\ Len(line) = (IF line_buf = <<>> THEN 0 ELSE Len(line_buf) - 1)
                        /\ \A i \in 1..Len(line) : line[i] = line_buf[i] /\ line[i] # "Z"
             ELSE /\ dec_pc' = "inframe"
                  /\ lines_out' = lines_out
                  /\ line_buf' = IF wd_call'.data = ""
                                 THEN line_buf ELSE line_buf \o <<wd_call'.data>>]_vars

\* C32 witness: a frame whose payload holds the start marker has been
\* returned whole, after a second frame was asked for
C32_Witness ==
  /\ Len(lines_out) = 2
  /\ lines_out[2] = <<"h", "A">>
  /\ dec_pc = "idle"

\* C33: whenever the check of the data watchdog returns withinLimit = false,
\* no read of the decoder, in Seeking or InFrame, has given a unit during the
\* limit interval that ends at the check.
C33_DataWatchdogMeansSilence ==
  [][(/\ dec_pc = "seeking"
      /\ dec_pc' # "raised"
      /\ wdVars' # wdVars
      /\ ~wd_ret'["data"].ok)
       => (unit_at' = Unset \/ wall' - unit_at' >= watchdogs'["data"].limit)]_vars

\* C34: a line classify_message rejects as "no record" leaves the sticky id
\* and mode exactly as they were before the call.
C34_RejectedLeavesStickyState ==
  [][(clock' # clock /\ Rejected(last') /\ ~last'.raised)
       => (mu_id' = mu_id /\ mu_mm' = mu_mm)]_vars

\* C35: every task the loop enqueues pairs the timestamp of the record just
\* classified with the field values computed from that same record, also in
\* an iteration whose CSV transform or write fails.
C35_TaskFromSameRecord ==
  [][Len(enqueued') > Len(enqueued)
       => LET new_task == enqueued'[Len(enqueued')]
              tr == CsvTransform(last'.payload)
          IN /\ LastKind(last') = 1
             /\ new_task.timestamp = last'.payload[4]
             /\ tr.ok
             /\ new_task.data = tr.data]_vars

\* C36: the success tracker holds exactly 10 outcomes in every reachable
\* state, so the failure ratio of send is defined and a whole number of
\* tenths; and while fewer than 10 pushes have been made, the number of False
\* outcomes in it is the number of pushes that failed.
C36_WindowAlwaysTen ==
  /\ Len(success_tracker) = 10
  /\ SendRatio(success_tracker).len = 10
  /\ SendRatio(success_tracker).failed \in 0..10
  /\ Len(pushed) < 10
       => SendRatio(success_tracker).failed = Len(pushed) - Len(delivered)

\* C37: every call of add_data that returns appends exactly one outcome to the
\* success tracker and returns that same boolean, which is True exactly when a
\* request was issued and answered 2xx; a call whose timestamp is rejected
\* issues no request and appends and returns False.
C37_OneOutcomePerCall ==
  [][(n_calls' # n_calls /\ call'.op = "add_data" /\ enabled /\ ~call'.raised)
       => /\ call'.ret \in {"True", "False"}
          /\ success_tracker' = Tail(success_tracker) \o <<call'.ret = "True">>
          /\ (call'.ret = "True")
               <=> (call'.requests = <<"POST sensordata">> /\ call'.response = "ok")
          /\ call'.requests = <<>>
               => (call'.ret = "False" /\ success_tracker'[TrackerLen] = FALSE)]_vars

\* C37 witness: after a push that succeeded, a call with a timestamp in another
\* format has returned False without a request and is the newest outcome
C37_Witness ==
  /\ n_calls = 2
  /\ call.op = "add_data" /\ call.timestamp = Str(TsIso)
  /\ call.ret = "False" /\ call.requests = <<>>
  /\ success_tracker[TrackerLen] = FALSE /\ success_tracker[TrackerLen - 1] = TRUE

\* C38: two messages the notifier sends on one topic are more than min_time
\* apart; a call of publish inside the interval sends nothing and leaves
\* last_publish as it was; and a call on one topic neither changes nor is
\* held back by what was sent on another: it sends whenever its own topic has
\* had no message for more than min_time.
C38_OnePerTopicPerMinTime ==
  [][/\ \A t \in Topics :
          sent_at'[t] # sent_at[t]
            => /\ sent_at[t] = Unset \/ sent_at'[t] - sent_at[t] > MinTime
               /\ t = pub_call'.topic /\ pub_call'.sent
               /\ last_publish'[t] = sent_at'[t]
     /\ (wall' = wall /\ pub_call'.topic # "none" /\ ~pub_call'.sent)
          => (last_publish' = last_publish /\ sent_at' = sent_at)
     /\ (wall' = wall /\ pub_call'.topic # "none")
          => /\ \A t \in Topics \ {pub_call'.topic} :
                  last_publish'[t] = last_publish[t] /\ sent_at'[t] = sent_at[t]
             /\ pub_call'.sent
                  <=> \/ sent_at[pub_call'.topic] = Unset
                      \/ wall - sent_at[pub_call'.topic] > MinTime]_vars

\* C38 witness: a message was sent on timeout_error at 0 and one on csv_error
\* half a second later; a call on timeout_error exactly min_time after the
\* first was dropped
C38_Witness ==
  /\ wall = MinTime
  /\ sent_at["timeout_error"] = 0 /\ last_publish["timeout_error"] = 0
  /\ sent_at["csv_error"] = 1
  /\ pub_call = [topic |-> "timeout_error", at |-> MinTime, sent |-> FALSE]

\* C39: on a client constructed for a handle that starts with "OB" and is no
\* key of the website mapping, every method call (listing, registration, push,
\* send, start, stop) returns None and has no effect: no request is issued,
\* no task is enqueued, no thread is started, and nothing the client holds
\* changes.
C39_DisabledClientInert ==
  [][node_handle = HostUnmapped
       => /\ n_calls' # n_calls
               => (call'.ret = "None" /\ ~call'.raised /\ call'.requests = <<>>)
          /\ (clock' # clock /\ IsStored(last'.header) /\ data_dict'.bound)
               => (send_result'.kind = "None" /\ handoff'.cloud = "swallowed")
          /\ stop_pc' # stop_pc => stop_pc' = "done"
          /\ queue' = queue /\ enqueued' = enqueued /\ pushed' = pushed
          /\ ~thread_started' /\ worker_pc' = "unstarted" /\ ~stop_event'
          /\ success_tracker' = success_tracker
          /\ known_nodes' = known_nodes /\ known_data_fields' = known_data_fields
          /\ service_nodes' = service_nodes]_vars

\* C39 witness: on the disabled client the loop has offered a record to send,
\* stop and then start have been called, and nothing is queued or running
C39_Witness ==
  /\ node_handle = HostUnmapped
  /\ handoff.cloud = "swallowed" /\ send_result.kind = "None"
  /\ stop_pc = "done"
  /\ call.op = "start" /\ call.ret = "None" /\ n_calls = MaxCalls
  /\ queue = <<>> /\ enqueued = <<>> /\ ~thread_started /\ worker_pc = "unstarted"

====
